---- MODULE Spec2Model ----
(***************************************************************************)
(* The CharityDonation ledger (contracts/CharityDonation.sol) and its V2   *)
(* logic (contracts/CharityDonationV2.sol) behind one UUPS proxy.          *)
(*                                                                         *)
(* One action per external function.  Every function that makes no         *)
(* external call is one atomic step (a transaction or a nested message     *)
(* call).  withdrawFunds hands control to the payout address in the middle *)
(* of its body, so it is three steps: WithdrawFunds (checks, effects, the  *)
(* value transfer), any number of calls made by the receiver while it      *)
(* holds control, and ReceiverReturns / ReceiverReverts.  A revert         *)
(* restores the storage and the balances of the start of the call.         *)
(***************************************************************************)
EXTENDS FiniteSets, Integers, Sequences, TLC

----------------------------------------------------------------------------
(* Bounds of the model *)

MaxCalls  == 3    \* steps that change the state in one behaviour: calls that
                  \* write storage (initialize included) and new blocks
MaxAmount == 2    \* largest msg.value offered to donate
ExtraCalls == 3   \* state-changing steps added to MaxCalls in SpecRegistry
LogicCalls == 1   \* state-changing steps added to MaxCalls in SpecLogics

----------------------------------------------------------------------------
(* Addresses, roles, inputs *)

Deployer     == "deployer"   \* msg.sender of initialize()
Stranger     == "stranger"   \* an account that is given nothing at deployment
UnicefWallet == "unicef"     \* the wallet seeded by initialize()
ZeroAddress  == "0x0"        \* address(0)
Ledger       == "ledger"     \* address(this), the proxy

Addr == {Deployer, Stranger, UnicefWallet}

ADMIN_ROLE         == "ADMIN_ROLE"
DEFAULT_ADMIN_ROLE == "DEFAULT_ADMIN_ROLE"
Roles == {ADMIN_ROLE, DEFAULT_ADMIN_ROLE}

Names   == {"", "Foo"}
Wallets == {Stranger, UnicefWallet, ZeroAddress}   \* payout addresses proposed

Versions == {"v2.0.1-beta"}
Logics   == {"V1", "V2"}     \* CharityDonation, CharityDonationV2

MaxCharities == MaxCalls               \* no behaviour allocates more ids than this
InitFunds    == MaxCalls * MaxAmount   \* native value each account owns at deployment

\* Revert reasons
ErrInvalidCharity   == "Invalid charity ID"
ErrNotActive        == "Charity is not active"
ErrZeroDonation     == "Donation amount must be greater than 0"
ErrEmptyName        == "Name cannot be empty"
ErrInvalidWallet    == "Invalid wallet address"
ErrInvalidProposal  == "Invalid proposal ID"
ErrProcessed        == "Proposal already processed"
ErrNotWallet        == "Only charity wallet can withdraw"
ErrNoFunds          == "No funds to withdraw"
ErrTransferFailed   == "Transfer failed"
ErrNotAdmin         == "Caller is not an admin"
ErrReentrant        == "ReentrancyGuardReentrantCall"
ErrInitialized      == "InvalidInitialization"
ErrAccessControl    == "AccessControlUnauthorizedAccount"
ErrBadConfirmation  == "AccessControlBadConfirmation"
ErrUseDonate        == "Please use the donate function"
ErrNoFunction       == "Function does not exist"
ErrOutOfRange       == ""   \* array getter, index out of bounds: empty revert data
OK                  == "ok"        \* the call returned
Running             == "running"   \* the call is inside its external transfer
Idle                == "idle"      \* no call is being made

----------------------------------------------------------------------------
(* State *)

VARIABLES
    charityCount,         \* uint256 public charityCount
    proposalCount,        \* uint256 public proposalCount
    totalDonations,       \* uint256 public totalDonations
    charities,            \* mapping(uint256 => Charity), ids 1..charityCount
    proposals,            \* mapping(uint256 => CharityProposal), ids 1..proposalCount
    donorTotalDonations,  \* mapping(address => uint256)
    charityBalances,      \* mapping(uint256 => uint256)
    isDonor,              \* mapping(address => bool)
    donationHistory,      \* Donation[]
    donorAddresses,       \* address[]
    roles,                \* AccessControl: role -> set of holders
    initialized,          \* Initializable: initialize() has run
    locked,               \* the reentrancy guard's flag
    contractVersion,      \* V2: string public contractVersion
    implementation,       \* the logic the proxy delegates to: "V1" or "V2"
    ethBalance,           \* native value of every account and of the ledger
    now,                  \* block.timestamp
    logs,                 \* events emitted by the transaction being made
    callStack,            \* withdrawFunds calls inside their transfer, innermost last
    lastCall,             \* the call being made: its function and its outcome
    withdrawn,            \* per charity id: total paid out by withdrawFunds
    callCount             \* state-changing steps taken so far (calls, blocks)

storage == <<charityCount, proposalCount, totalDonations, charities, proposals,
             donorTotalDonations, charityBalances, isDonor, donationHistory,
             donorAddresses, roles, initialized, locked, contractVersion,
             implementation>>

vars == <<charityCount, proposalCount, totalDonations, charities, proposals,
          donorTotalDonations, charityBalances, isDonor, donationHistory,
          donorAddresses, roles, initialized, locked, contractVersion,
          implementation, ethBalance, now, logs, callStack, lastCall, withdrawn,
          callCount>>

\* What a revert of a withdrawFunds call restores: everything the call and the
\* calls nested in it may have written.
Snapshot ==
    [charityCount |-> charityCount, proposalCount |-> proposalCount,
     totalDonations |-> totalDonations, charities |-> charities,
     proposals |-> proposals, donorTotalDonations |-> donorTotalDonations,
     charityBalances |-> charityBalances, isDonor |-> isDonor,
     donationHistory |-> donationHistory, donorAddresses |-> donorAddresses,
     roles |-> roles, initialized |-> initialized, locked |-> locked,
     contractVersion |-> contractVersion, implementation |-> implementation,
     ethBalance |-> ethBalance, logs |-> logs, withdrawn |-> withdrawn,
     callCount |-> callCount]

\* No call is being made.
NoCall == [op |-> "none", err |-> Idle]

\* Some withdrawFunds call is inside its external transfer: the receiver runs.
InTransfer == callStack # << >>

\* The proxy as deployed: empty storage, no value.
Deployed ==
    /\ charityCount = 0
    /\ proposalCount = 0
    /\ totalDonations = 0
    /\ charities = << >>
    /\ proposals = << >>
    /\ donorTotalDonations = [a \in Addr |-> 0]
    /\ charityBalances = [i \in 1..MaxCharities |-> 0]
    /\ isDonor = [a \in Addr |-> FALSE]
    /\ donationHistory = << >>
    /\ donorAddresses = << >>
    /\ roles = [r \in Roles |-> {}]
    /\ initialized = FALSE
    /\ locked = FALSE
    /\ contractVersion = ""
    /\ implementation = "V1"
    /\ ethBalance = [a \in Addr \cup {Ledger} |-> IF a = Ledger THEN 0 ELSE InitFunds]
    /\ now = 1
    /\ logs = << >>
    /\ callStack = << >>
    /\ lastCall = NoCall
    /\ withdrawn = [i \in 1..MaxCharities |-> 0]

Init ==
    /\ Deployed
    /\ callCount = 0

----------------------------------------------------------------------------
(* Helpers shared by the functions *)

hasRole(role, account) == account \in roles[role]

\* onlyAdmin as it would be if it looked at DEFAULT_ADMIN_ROLE alone
onlyAdmin_superOnly(sender) == hasRole(DEFAULT_ADMIN_ROLE, sender)

\* onlyAdmin as it would be without its require
onlyAdmin_anyone(sender) == TRUE

\* modifier onlyAdmin
onlyAdmin(sender) == hasRole(ADMIN_ROLE, sender) \/ hasRole(DEFAULT_ADMIN_ROLE, sender)

\* Calls are made one after another: a call can start when the outcome of the
\* one before it has been handed to its caller (CallEnds).  Inside a transfer
\* the calls are those of the receiver.
Ready == lastCall.err \in {Idle, Running}

\* The record of a call that returned.
Call(op) == [op |-> op, err |-> OK]

\* A call that fails: nothing it wrote survives.
Revert(call, err) ==
    /\ Ready
    /\ lastCall' = [call EXCEPT !.err = err]
    /\ UNCHANGED <<storage, ethBalance, now, logs, callStack, withdrawn, callCount>>

\* A call that returns, having written storage and emitted `events`.
Return(call, events) ==
    /\ Ready
    /\ callCount < MaxCalls
    /\ callCount' = callCount + 1
    /\ lastCall' = call
    /\ logs' = logs \o events

\* A call that returns without having written anything.
ReturnNoEffect(call) ==
    /\ Ready
    /\ lastCall' = call
    /\ UNCHANGED <<storage, ethBalance, now, logs, callStack, withdrawn, callCount>>

\* Native value moving between two accounts.
Transfer(from, to, amount) ==
    [ethBalance EXCEPT ![from] = @ - amount, ![to] = @ + amount]

----------------------------------------------------------------------------
(* initialize and _addCharity *)

\* newCharityCount as it would be without the increment of line 161
newCharityCount_stuck == charityCount

\* _addCharity, line 161: charityCount++
newCharityCount == charityCount + 1

\* _addCharity as it would be if storing the new record also wrote its
\* wallet into the records already there
_addCharity_rewrites(name, description, walletAddress) ==
    [i \in 1 .. (Len(charities) + 1) |->
        IF i = Len(charities) + 1
        THEN [id |-> newCharityCount, name |-> name, description |-> description,
              walletAddress |-> walletAddress, totalReceived |-> 0, isActive |-> TRUE]
        ELSE [charities[i] EXCEPT !.walletAddress = walletAddress]]

\* _addCharity as it would be if the new charity were stored inactive
_addCharity_inactive(name, description, walletAddress) ==
    Append(charities,
           [id |-> newCharityCount, name |-> name, description |-> description,
            walletAddress |-> walletAddress, totalReceived |-> 0, isActive |-> FALSE])

\* function _addCharity: the charity table with one more record
_addCharity(name, description, walletAddress) ==
    Append(charities,
           [id |-> newCharityCount, name |-> name, description |-> description,
            walletAddress |-> walletAddress, totalReceived |-> 0, isActive |-> TRUE])

\* initializer as it would be if initialize could run again
initializer_open == TRUE

\* modifier initializer: the proxy has not been initialized
initializer == ~initialized

\* function initialize() public initializer
initialize(sender) ==
    LET call == Call("initialize") IN
    IF ~initializer
    THEN Revert(call, ErrInitialized)
    ELSE /\ initialized' = TRUE
         /\ roles' = [roles EXCEPT ![DEFAULT_ADMIN_ROLE] = @ \cup {sender},
                                   ![ADMIN_ROLE] = @ \cup {sender}]
         /\ charities' = _addCharity("UNICEF",
                                     "Children's rights and development advocacy",
                                     UnicefWallet)
         /\ charityCount' = newCharityCount
         /\ Return(call,
                   << [event |-> "RoleGranted", role |-> DEFAULT_ADMIN_ROLE, account |-> sender],
                      [event |-> "RoleGranted", role |-> ADMIN_ROLE, account |-> sender],
                      [event |-> "Initialized"] >>)
         /\ UNCHANGED <<proposalCount, totalDonations, proposals, donorTotalDonations,
                        charityBalances, isDonor, donationHistory, donorAddresses,
                        locked, contractVersion, implementation, ethBalance, now,
                        callStack, withdrawn>>

----------------------------------------------------------------------------
(* donate *)

\* first require of validCharity, and the id checks of withdrawFunds and
\* toggleCharityStatus
validCharityId(id) == id > 0 /\ id <= charityCount

\* charityIsActive as it would be without the second require of validCharity
charityIsActive_unchecked(id) == TRUE

\* second require of validCharity
charityIsActive(id) == charities[id].isActive

\* guardFree as it would be without the nonReentrant modifier
guardFree_unguarded == TRUE

\* nonReentrant, before the body: the guard is free
guardFree == ~locked

\* creditCharity as it would be if line 185 assigned instead of adding
creditCharity_assigns(id, value) == [charityBalances EXCEPT ![id] = value]

\* donate, lines 184-186: the escrow of the charity after the donation
creditCharity(id, value) == [charityBalances EXCEPT ![id] = @ + value]

\* trackDonor as it would be without the isDonor test of line 189
trackDonor_always(sender) == Append(donorAddresses, sender)

\* donate, lines 188-192: the donor list after a donation by sender
trackDonor(sender) ==
    IF ~isDonor[sender] THEN Append(donorAddresses, sender) ELSE donorAddresses

\* creditDonor as it would be if line 193 assigned instead of adding
creditDonor_assigns(sender, value) ==
    [donorTotalDonations EXCEPT ![sender] = value]

\* donate, line 193: the donors' totals after a donation by sender
creditDonor(sender, value) ==
    [donorTotalDonations EXCEPT ![sender] = @ + value]

\* recordDonation as it would be if the record went to the front
recordDonation_prepends(sender, id, value) ==
    << [donor |-> sender, charityId |-> id, amount |-> value, timestamp |-> now] >>
        \o donationHistory

\* recordDonation as it would be without the push of lines 196-203
recordDonation_skips(sender, id, value) == donationHistory

\* donate, lines 196-203: the history with the donation pushed at its end
recordDonation(sender, id, value) ==
    Append(donationHistory,
           [donor |-> sender, charityId |-> id, amount |-> value, timestamp |-> now])

\* function donate(uint256 _charityId) external payable
\*     validCharity(_charityId) nonReentrant
donate(sender, id, value) ==
    LET call == Call("donate") IN
    /\ value <= ethBalance[sender]
    /\ IF ~validCharityId(id) THEN Revert(call, ErrInvalidCharity)
       ELSE IF ~charityIsActive(id) THEN Revert(call, ErrNotActive)
       ELSE IF ~guardFree THEN Revert(call, ErrReentrant)
       ELSE IF ~(value > 0) THEN Revert(call, ErrZeroDonation)
       ELSE /\ ethBalance' = Transfer(sender, Ledger, value)
            /\ charities' = [charities EXCEPT ![id].totalReceived = @ + value]
            /\ charityBalances' = creditCharity(id, value)
            /\ totalDonations' = totalDonations + value
            /\ isDonor' = [isDonor EXCEPT ![sender] = TRUE]
            /\ donorAddresses' = trackDonor(sender)
            /\ donorTotalDonations' = creditDonor(sender, value)
            /\ donationHistory' = recordDonation(sender, id, value)
            /\ Return(call,
                      << [event |-> "DonationReceived", donor |-> sender, charityId |-> id,
                          amount |-> value, timestamp |-> now] >>)
            /\ UNCHANGED <<charityCount, proposalCount, proposals, roles, initialized,
                           locked, contractVersion, implementation, now, callStack,
                           withdrawn>>

----------------------------------------------------------------------------
(* withdrawFunds *)

\* debitCharity as it would be if the escrows were kept per wallet: every
\* charity registered with the wallet of charity id is emptied
debitCharity_byWallet(id) ==
    [r \in DOMAIN charityBalances |->
        IF r \in 1 .. charityCount
           /\ charities[r].walletAddress = charities[id].walletAddress
        THEN 0 ELSE charityBalances[r]]

\* debitCharity as it would be without the zeroing of line 314
debitCharity_keeps(id) == charityBalances

\* withdrawFunds, line 314: the escrow table once the call has taken its balance
debitCharity(id) == [charityBalances EXCEPT ![id] = 0]

\* balance as it would be if line 310 read the escrow after line 314 had
\* zeroed it
balance_afterDebit(id) == debitCharity(id)[id]

\* withdrawFunds, line 310: uint256 balance = charityBalances[_charityId],
\* the escrow read before anything is written
balance(id) == charityBalances[id]

\* isCharityWallet as it would be if withdrawing needed an active charity
isCharityWallet_ifActive(sender, id) ==
    sender = charities[id].walletAddress /\ charities[id].isActive

\* isCharityWallet as it would be if the admins could withdraw as well
isCharityWallet_orAdmin(sender, id) ==
    sender = charities[id].walletAddress \/ onlyAdmin(sender)

\* withdrawFunds, lines 305-308: msg.sender == charity.walletAddress
isCharityWallet(sender, id) == sender = charities[id].walletAddress

\* function withdrawFunds(uint256 _charityId) external nonReentrant, up to and
\* including the value transfer of line 317; the receiver then holds control.
withdrawFunds(sender, id) ==
    LET call == Call("withdrawFunds") IN
    IF ~guardFree THEN Revert(call, ErrReentrant)
    ELSE IF ~validCharityId(id) THEN Revert(call, ErrInvalidCharity)
    ELSE IF ~isCharityWallet(sender, id) THEN Revert(call, ErrNotWallet)
    ELSE IF ~(balance(id) > 0) THEN Revert(call, ErrNoFunds)
    ELSE /\ callStack' = Append(callStack,
                [charityId |-> id, wallet |-> charities[id].walletAddress,
                 balance |-> balance(id), saved |-> Snapshot])
         /\ Ready
         /\ callCount < MaxCalls
         /\ callCount' = callCount + 1
         /\ locked' = TRUE
         /\ charityBalances' = debitCharity(id)
         /\ ethBalance' = Transfer(Ledger, charities[id].walletAddress, balance(id))
         /\ lastCall' = [call EXCEPT !.err = Running]
         /\ UNCHANGED <<charityCount, proposalCount, totalDonations, charities, proposals,
                        donorTotalDonations, isDonor, donationHistory, donorAddresses,
                        roles, initialized, contractVersion, implementation, now, logs,
                        withdrawn>>

\* The innermost withdrawFunds call that is inside its transfer.
Top == callStack[Len(callStack)]

\* ReceiverReturns as it would be if the guard were not released on return
ReceiverReturns_holdsGuard ==
    /\ InTransfer
    /\ Ready
    /\ callStack' = SubSeq(callStack, 1, Len(callStack) - 1)
    /\ locked' = TRUE
    /\ withdrawn' = [withdrawn EXCEPT ![Top.charityId] = @ + Top.balance]
    /\ logs' = Append(logs, [event |-> "FundsWithdrawn", charityId |-> Top.charityId,
                             recipient |-> Top.wallet, amount |-> Top.balance])
    /\ lastCall' = Call("withdrawFunds")
    /\ UNCHANGED <<charityCount, proposalCount, totalDonations, charities, proposals,
                   donorTotalDonations, charityBalances, isDonor, donationHistory,
                   donorAddresses, roles, initialized, contractVersion, implementation,
                   ethBalance, now, callCount>>

\* The receiver accepts the transfer: success = true, line 320 emits
\* FundsWithdrawn and nonReentrant releases the guard.
ReceiverReturns ==
    /\ InTransfer
    /\ Ready
    /\ callStack' = SubSeq(callStack, 1, Len(callStack) - 1)
    /\ locked' = FALSE
    /\ withdrawn' = [withdrawn EXCEPT ![Top.charityId] = @ + Top.balance]
    /\ logs' = Append(logs, [event |-> "FundsWithdrawn", charityId |-> Top.charityId,
                             recipient |-> Top.wallet, amount |-> Top.balance])
    /\ lastCall' = Call("withdrawFunds")
    /\ UNCHANGED <<charityCount, proposalCount, totalDonations, charities, proposals,
                   donorTotalDonations, charityBalances, isDonor, donationHistory,
                   donorAddresses, roles, initialized, contractVersion, implementation,
                   ethBalance, now, callCount>>

\* ReceiverReverts as it would be if a failed transfer were reported without
\* reverting (line 318 returning instead of requiring): the debit of line 314
\* and the guard stay as the call left them
ReceiverReverts_noRollback ==
    /\ InTransfer
    /\ Ready
    /\ callStack' = SubSeq(callStack, 1, Len(callStack) - 1)
    /\ charityCount' = Top.saved.charityCount
    /\ proposalCount' = Top.saved.proposalCount
    /\ totalDonations' = Top.saved.totalDonations
    /\ charities' = Top.saved.charities
    /\ proposals' = Top.saved.proposals
    /\ donorTotalDonations' = Top.saved.donorTotalDonations
    /\ charityBalances' = charityBalances
    /\ isDonor' = Top.saved.isDonor
    /\ donationHistory' = Top.saved.donationHistory
    /\ donorAddresses' = Top.saved.donorAddresses
    /\ roles' = Top.saved.roles
    /\ initialized' = Top.saved.initialized
    /\ locked' = FALSE
    /\ contractVersion' = Top.saved.contractVersion
    /\ implementation' = Top.saved.implementation
    /\ ethBalance' = Top.saved.ethBalance
    /\ withdrawn' = Top.saved.withdrawn
    /\ callCount' = Top.saved.callCount
    /\ logs' = Top.saved.logs
    /\ lastCall' = [Call("withdrawFunds") EXCEPT !.err = ErrTransferFailed]
    /\ UNCHANGED now

\* The receiver rejects the transfer: success = false, require(success) of
\* line 318 reverts the call with everything done since it began.
ReceiverReverts ==
    /\ InTransfer
    /\ Ready
    /\ callStack' = SubSeq(callStack, 1, Len(callStack) - 1)
    /\ charityCount' = Top.saved.charityCount
    /\ proposalCount' = Top.saved.proposalCount
    /\ totalDonations' = Top.saved.totalDonations
    /\ charities' = Top.saved.charities
    /\ proposals' = Top.saved.proposals
    /\ donorTotalDonations' = Top.saved.donorTotalDonations
    /\ charityBalances' = Top.saved.charityBalances
    /\ isDonor' = Top.saved.isDonor
    /\ donationHistory' = Top.saved.donationHistory
    /\ donorAddresses' = Top.saved.donorAddresses
    /\ roles' = Top.saved.roles
    /\ initialized' = Top.saved.initialized
    /\ locked' = Top.saved.locked
    /\ contractVersion' = Top.saved.contractVersion
    /\ implementation' = Top.saved.implementation
    /\ ethBalance' = Top.saved.ethBalance
    /\ withdrawn' = Top.saved.withdrawn
    /\ callCount' = Top.saved.callCount
    /\ logs' = Top.saved.logs
    /\ lastCall' = [Call("withdrawFunds") EXCEPT !.err = ErrTransferFailed]
    /\ UNCHANGED now

\* The outcome of a call reaches its caller and the next call can be made; a
\* transaction that has ended leaves its logs in its receipt.
CallEnds ==
    /\ ~Ready
    /\ lastCall' = IF InTransfer THEN [Call("withdrawFunds") EXCEPT !.err = Running] ELSE NoCall
    /\ logs' = IF InTransfer THEN logs ELSE << >>
    /\ UNCHANGED <<storage, ethBalance, now, callStack, withdrawn, callCount>>

\* A new block: block.timestamp advances between transactions.
NextBlock ==
    /\ ~InTransfer
    /\ Ready
    /\ callCount < MaxCalls
    /\ callCount' = callCount + 1
    /\ now' = now + 1
    /\ UNCHANGED <<storage, ethBalance, logs, callStack, lastCall, withdrawn>>

----------------------------------------------------------------------------
(* proposeCharity, approveCharity, rejectCharity, toggleCharityStatus *)

\* validWallet as it would be without the require of line 226
validWallet_any(walletAddress) == TRUE

\* proposeCharity, line 226: _walletAddress != address(0)
validWallet(walletAddress) == walletAddress # ZeroAddress

\* newProposalCount as it would be without the increment of line 228
newProposalCount_stuck == proposalCount

\* proposalCount++ of line 228: the id given to the new proposal
newProposalCount == proposalCount + 1

\* proposeCharity as it would be under nonReentrant
proposeCharity_guarded(sender, name, description, walletAddress) ==
    LET call == Call("proposeCharity") IN
    IF ~guardFree THEN Revert(call, ErrReentrant)
    ELSE IF ~(name # "") THEN Revert(call, ErrEmptyName)
    ELSE IF ~validWallet(walletAddress) THEN Revert(call, ErrInvalidWallet)
    ELSE /\ proposalCount' = newProposalCount
         /\ proposals' = Append(proposals,
                [id |-> newProposalCount, name |-> name, description |-> description,
                 walletAddress |-> walletAddress, proposer |-> sender,
                 isProcessed |-> FALSE, isApproved |-> FALSE])
         /\ Return(call,
                   << [event |-> "CharityProposed", proposer |-> sender, name |-> name,
                       walletAddress |-> walletAddress, proposalId |-> newProposalCount] >>)
         /\ UNCHANGED <<charityCount, totalDonations, charities, donorTotalDonations,
                        charityBalances, isDonor, donationHistory, donorAddresses, roles,
                        initialized, locked, contractVersion, implementation, ethBalance,
                        now, callStack, withdrawn>>

\* function proposeCharity(string _name, string _description,
\*                         address payable _walletAddress) external
proposeCharity(sender, name, description, walletAddress) ==
    LET call == Call("proposeCharity") IN
    IF ~(name # "") THEN Revert(call, ErrEmptyName)
    ELSE IF ~validWallet(walletAddress) THEN Revert(call, ErrInvalidWallet)
    ELSE /\ proposalCount' = newProposalCount
         /\ proposals' = Append(proposals,
                [id |-> newProposalCount, name |-> name, description |-> description,
                 walletAddress |-> walletAddress, proposer |-> sender,
                 isProcessed |-> FALSE, isApproved |-> FALSE])
         /\ Return(call,
                   << [event |-> "CharityProposed", proposer |-> sender, name |-> name,
                       walletAddress |-> walletAddress, proposalId |-> newProposalCount] >>)
         /\ UNCHANGED <<charityCount, totalDonations, charities, donorTotalDonations,
                        charityBalances, isDonor, donationHistory, donorAddresses, roles,
                        initialized, locked, contractVersion, implementation, ethBalance,
                        now, callStack, withdrawn>>

\* first require of approveCharity and of rejectCharity
validProposalId(id) == id > 0 /\ id <= proposalCount

\* notProcessed as it would be without that require
notProcessed_always(id) == TRUE

\* second require of approveCharity and of rejectCharity
notProcessed(id) == ~proposals[id].isProcessed

\* markProcessed as it would be if the proposal were not marked as processed
markProcessed_forgets(id, approved) ==
    [proposals EXCEPT ![id].isApproved = approved]

\* approveCharity lines 257-258, rejectCharity lines 289-290
markProcessed(id, approved) ==
    [proposals EXCEPT ![id].isProcessed = TRUE, ![id].isApproved = approved]

\* function approveCharity(uint256 _proposalId) external onlyAdmin
approveCharity(sender, id) ==
    LET call == Call("approveCharity") IN
    IF ~onlyAdmin(sender) THEN Revert(call, ErrNotAdmin)
    ELSE IF ~validProposalId(id) THEN Revert(call, ErrInvalidProposal)
    ELSE IF ~notProcessed(id) THEN Revert(call, ErrProcessed)
    ELSE /\ proposals' = markProcessed(id, TRUE)
         /\ charities' = _addCharity(proposals[id].name, proposals[id].description,
                                     proposals[id].walletAddress)
         /\ charityCount' = newCharityCount
         /\ Return(call,
                   << [event |-> "CharityApproved", charityId |-> newCharityCount,
                       name |-> proposals[id].name,
                       walletAddress |-> proposals[id].walletAddress] >>)
         /\ UNCHANGED <<proposalCount, totalDonations, donorTotalDonations,
                        charityBalances, isDonor, donationHistory, donorAddresses, roles,
                        initialized, locked, contractVersion, implementation, ethBalance,
                        now, callStack, withdrawn>>

\* function rejectCharity(uint256 _proposalId) external onlyAdmin
rejectCharity(sender, id) ==
    LET call == Call("rejectCharity") IN
    IF ~onlyAdmin(sender) THEN Revert(call, ErrNotAdmin)
    ELSE IF ~validProposalId(id) THEN Revert(call, ErrInvalidProposal)
    ELSE IF ~notProcessed(id) THEN Revert(call, ErrProcessed)
    ELSE /\ proposals' = markProcessed(id, FALSE)
         /\ Return(call,
                   << [event |-> "CharityRejected", proposalId |-> id,
                       name |-> proposals[id].name] >>)
         /\ UNCHANGED <<charityCount, proposalCount, totalDonations, charities,
                        donorTotalDonations, charityBalances, isDonor, donationHistory,
                        donorAddresses, roles, initialized, locked, contractVersion,
                        implementation, ethBalance, now, callStack, withdrawn>>

\* flipActive as it would be if the toggle only deactivated
flipActive_deactivates(id) == [charities EXCEPT ![id].isActive = FALSE]

\* toggleCharityStatus, line 332: isActive = !isActive
flipActive(id) == [charities EXCEPT ![id].isActive = ~@]

\* function toggleCharityStatus(uint256 _charityId) external onlyAdmin
toggleCharityStatus(sender, id) ==
    LET call == Call("toggleCharityStatus") IN
    IF ~onlyAdmin(sender) THEN Revert(call, ErrNotAdmin)
    ELSE IF ~validCharityId(id) THEN Revert(call, ErrInvalidCharity)
    ELSE /\ charities' = flipActive(id)
         /\ Return(call,
                   << [event |-> "CharityStatusChanged", charityId |-> id,
                       isActive |-> flipActive(id)[id].isActive] >>)
         /\ UNCHANGED <<charityCount, proposalCount, totalDonations, proposals,
                        donorTotalDonations, charityBalances, isDonor, donationHistory,
                        donorAddresses, roles, initialized, locked, contractVersion,
                        implementation, ethBalance, now, callStack, withdrawn>>

----------------------------------------------------------------------------
(* AccessControl: grantRole, revokeRole, renounceRole *)

\* onlyRoleAdmin as it would be if ADMIN_ROLE sufficed to administer roles
onlyRoleAdmin_anyAdmin(sender) == onlyAdmin(sender)

\* onlyRole(getRoleAdmin(role)): the admin role of both roles is
\* DEFAULT_ADMIN_ROLE
onlyRoleAdmin(sender) == hasRole(DEFAULT_ADMIN_ROLE, sender)

\* function grantRole(bytes32 role, address account)
grantRole(sender, role, account) ==
    LET call == Call("grantRole") IN
    IF ~onlyRoleAdmin(sender) THEN Revert(call, ErrAccessControl)
    ELSE IF hasRole(role, account) THEN ReturnNoEffect(call)
    ELSE /\ roles' = [roles EXCEPT ![role] = @ \cup {account}]
         /\ Return(call,
                   << [event |-> "RoleGranted", role |-> role, account |-> account] >>)
         /\ UNCHANGED <<charityCount, proposalCount, totalDonations, charities, proposals,
                        donorTotalDonations, charityBalances, isDonor, donationHistory,
                        donorAddresses, initialized, locked, contractVersion,
                        implementation, ethBalance, now, callStack, withdrawn>>

\* function revokeRole(bytes32 role, address account)
revokeRole(sender, role, account) ==
    LET call == Call("revokeRole") IN
    IF ~onlyRoleAdmin(sender) THEN Revert(call, ErrAccessControl)
    ELSE IF ~hasRole(role, account) THEN ReturnNoEffect(call)
    ELSE /\ roles' = [roles EXCEPT ![role] = @ \ {account}]
         /\ Return(call,
                   << [event |-> "RoleRevoked", role |-> role, account |-> account] >>)
         /\ UNCHANGED <<charityCount, proposalCount, totalDonations, charities, proposals,
                        donorTotalDonations, charityBalances, isDonor, donationHistory,
                        donorAddresses, initialized, locked, contractVersion,
                        implementation, ethBalance, now, callStack, withdrawn>>

\* function renounceRole(bytes32 role, address callerConfirmation)
renounceRole(sender, role, callerConfirmation) ==
    LET call == Call("renounceRole") IN
    IF callerConfirmation # sender THEN Revert(call, ErrBadConfirmation)
    ELSE IF ~hasRole(role, sender) THEN ReturnNoEffect(call)
    ELSE /\ roles' = [roles EXCEPT ![role] = @ \ {sender}]
         /\ Return(call,
                   << [event |-> "RoleRevoked", role |-> role, account |-> sender] >>)
         /\ UNCHANGED <<charityCount, proposalCount, totalDonations, charities, proposals,
                        donorTotalDonations, charityBalances, isDonor, donationHistory,
                        donorAddresses, initialized, locked, contractVersion,
                        implementation, ethBalance, now, callStack, withdrawn>>

----------------------------------------------------------------------------
(* The upgrade gate and the V2 logic *)

\* _authorizeUpgrade as it would be without its onlyAdmin modifier
_authorizeUpgrade_open(sender) == TRUE

\* function _authorizeUpgrade(address newImplementation) internal override
\*     onlyAdmin {}
_authorizeUpgrade(sender) == onlyAdmin(sender)

\* upgradeToAndCall as it would be if the new logic declared its state from a
\* different layout, reading totalDonations and donorTotalDonations from
\* fresh slots
upgradeToAndCall_resets(sender, newImplementation) ==
    LET call == Call("upgradeToAndCall") IN
    IF ~_authorizeUpgrade(sender) THEN Revert(call, ErrNotAdmin)
    ELSE /\ implementation' = newImplementation
         /\ totalDonations' = 0
         /\ donorTotalDonations' = [a \in Addr |-> 0]
         /\ Return(call,
                   << [event |-> "Upgraded", implementation |-> newImplementation] >>)
         /\ UNCHANGED <<charityCount, proposalCount, charities, proposals,
                        charityBalances, isDonor, donationHistory,
                        donorAddresses, roles, initialized, locked, contractVersion,
                        ethBalance, now, callStack, withdrawn>>

\* function upgradeToAndCall(address newImplementation, bytes data), with
\* empty data; _authorizeUpgrade is onlyAdmin
upgradeToAndCall(sender, newImplementation) ==
    LET call == Call("upgradeToAndCall") IN
    IF ~_authorizeUpgrade(sender) THEN Revert(call, ErrNotAdmin)
    ELSE /\ implementation' = newImplementation
         /\ Return(call,
                   << [event |-> "Upgraded", implementation |-> newImplementation] >>)
         /\ UNCHANGED <<charityCount, proposalCount, totalDonations, charities, proposals,
                        donorTotalDonations, charityBalances, isDonor, donationHistory,
                        donorAddresses, roles, initialized, locked, contractVersion,
                        ethBalance, now, callStack, withdrawn>>

\* The reads of CharityDonation: the getters the compiler makes for its
\* public constant and state variables (lines 22-72), its external view
\* functions (342-508) and the inherited hasRole; and the two reads that
\* CharityDonationV2 adds.
V1Views == {"ADMIN_ROLE", "charityCount", "proposalCount", "totalDonations",
            "charities", "proposals", "donorTotalDonations", "charityBalances",
            "donationHistory", "donorAddresses",
            "getCharities", "getActiveCharities", "getPendingProposals",
            "getAllDonors", "getDonorCount", "getRecentDonations", "getDonorTotal",
            "getContractBalance", "isOwner", "hasRole"}
V2Views == {"contractVersion", "getVersion"}
ViewFunctions == V1Views \cup V2Views

\* The functions the V1 logic answers: those CharityDonation declares (lines
\* 131-518, receive and fallback among them), the role functions and
\* upgradeToAndCall that it inherits, and its reads.
V1Functions ==
    {"initialize", "donate", "proposeCharity", "approveCharity", "rejectCharity",
     "withdrawFunds", "toggleCharityStatus", "grantRole", "revokeRole",
     "renounceRole", "upgradeToAndCall", "receive", "fallback"} \cup V1Views

\* V2Functions as it would be if the V2 logic were a contract of its own, with
\* setVersion, its reads and the upgrade function, and not derived from
\* CharityDonation
V2Functions_ownOnly == {"setVersion", "upgradeToAndCall"} \cup V2Views

\* contract CharityDonationV2 is CharityDonation (line 11): every function of
\* the V1 logic, and setVersion, getVersion and the getter of contractVersion
\* (lines 14-37)
V2Functions == V1Functions \cup {"setVersion"} \cup V2Views

\* The functions of the logic contract `logic`.
Functions(logic) == IF logic = "V2" THEN V2Functions ELSE V1Functions

\* A call of fn made to the proxy: the proxy delegates it to the logic in
\* place, which runs the function when it has one of that name and otherwise
\* refuses the selector (CharityDonation does so in its fallback).
delegate(fn, body) ==
    IF fn \in Functions(implementation) THEN body
    ELSE Revert(Call(fn), ErrNoFunction)

\* V2: function setVersion(string _version) public onlyAdmin; the V1 logic has
\* no such function and answers with its fallback
setVersion(sender, version) ==
    LET call == Call("setVersion") IN
    IF "setVersion" \notin Functions(implementation) THEN Revert(call, ErrNoFunction)
    ELSE IF ~onlyAdmin(sender) THEN Revert(call, ErrNotAdmin)
    ELSE /\ contractVersion' = version
         /\ Return(call,
                   << [event |-> "VersionUpdated", oldVersion |-> contractVersion,
                       newVersion |-> version] >>)
         /\ UNCHANGED <<charityCount, proposalCount, totalDonations, charities, proposals,
                        donorTotalDonations, charityBalances, isDonor, donationHistory,
                        donorAddresses, roles, initialized, locked, implementation,
                        ethBalance, now, callStack, withdrawn>>

\* The getters of the two public arrays take an index, counted from 0.
ArrayGetters == {"donationHistory", "donorAddresses"}

\* The length of the array behind an array getter.
arrayLength(fn) ==
    IF fn = "donationHistory" THEN Len(donationHistory) ELSE Len(donorAddresses)

\* The getter of a public array reverts, with empty revert data, on an index
\* that is not below the array's length; the other reads take any argument (a
\* mapping's getter returns the zero value for a key never written).
indexInRange(fn, index) == fn \notin ArrayGetters \/ index < arrayLength(fn)

\* viewCall as it would be if the view functions were under nonReentrant
viewCall_guarded(sender, fn, index) ==
    IF fn \notin Functions(implementation) THEN Revert(Call(fn), ErrNoFunction)
    ELSE IF ~guardFree THEN Revert(Call(fn), ErrReentrant)
    ELSE IF ~indexInRange(fn, index) THEN Revert(Call(fn), ErrOutOfRange)
    ELSE ReturnNoEffect(Call(fn))

\* A call of a read, with the index given to it when it is an array getter:
\* it carries no modifier, reads, and returns; an array getter reverts on an
\* index out of range; the V1 logic answers the selectors of the V2 reads
\* with its fallback
viewCall(sender, fn, index) ==
    IF fn \notin Functions(implementation) THEN Revert(Call(fn), ErrNoFunction)
    ELSE IF ~indexInRange(fn, index) THEN Revert(Call(fn), ErrOutOfRange)
    ELSE ReturnNoEffect(Call(fn))

\* The limits the read functions are called with.
Limits == 0 .. (MaxCalls + 1)

\* getDonorLeaderboard(uint256 limit), the call of the tests and of the web
\* interface: the contract declares no function of that name, so the selector
\* is unknown to it and the call runs fallback()
getDonorLeaderboard(sender, limit) ==
    Revert(Call("getDonorLeaderboard"), ErrNoFunction)

\* receive as it would be with an empty body: the value stays with the ledger
receive_accepts(sender, value) ==
    /\ value <= ethBalance[sender]
    /\ ethBalance' = Transfer(sender, Ledger, value)
    /\ Return(Call("receive"), << >>)
    /\ UNCHANGED <<storage, now, callStack, withdrawn>>

\* receive() external payable: a transfer of value with empty calldata
receive(sender, value) ==
    /\ value <= ethBalance[sender]
    /\ Revert(Call("receive"), ErrUseDonate)

\* fallback() external payable: a call with an unknown selector
fallback(sender, value) ==
    /\ value <= ethBalance[sender]
    /\ Revert(Call("fallback"), ErrNoFunction)

----------------------------------------------------------------------------
(* The state machine *)

\* Ids offered to the functions: 0, every allocated id, one never allocated.
CharityIds  == 0 .. (charityCount + 1)
ProposalIds == 0 .. (proposalCount + 1)

\* scripts/deploy_proxy.js: deployProxy creates the proxy and calls
\* initialize() from the deployer in the same transaction.
Deploy == ~initialized /\ delegate("initialize", initialize(Deployer))

Next ==
    \/ Deploy
    \/ initialized /\ \E sender \in Addr : delegate("initialize", initialize(sender))
    \/ initialized /\ \E sender \in Addr, id \in CharityIds, value \in 0..MaxAmount :
           delegate("donate", donate(sender, id, value))
    \/ initialized /\ \E sender \in Addr, id \in CharityIds :
           delegate("withdrawFunds", withdrawFunds(sender, id))
    \/ ReceiverReturns
    \/ ReceiverReverts
    \/ initialized /\ \E sender \in Addr, name \in Names,
                         walletAddress \in Wallets :
           delegate("proposeCharity", proposeCharity(sender, name, "desc", walletAddress))
    \/ initialized /\ \E sender \in Addr, id \in ProposalIds :
           delegate("approveCharity", approveCharity(sender, id))
    \/ initialized /\ \E sender \in Addr, id \in ProposalIds :
           delegate("rejectCharity", rejectCharity(sender, id))
    \/ initialized /\ \E sender \in Addr, id \in CharityIds :
           delegate("toggleCharityStatus", toggleCharityStatus(sender, id))
    \/ initialized /\ \E sender \in Addr, role \in Roles, account \in Addr :
           delegate("grantRole", grantRole(sender, role, account))
    \/ initialized /\ \E sender \in Addr, role \in Roles, account \in Addr :
           delegate("revokeRole", revokeRole(sender, role, account))
    \/ initialized /\ \E sender \in Addr, role \in Roles, confirmation \in Addr :
           delegate("renounceRole", renounceRole(sender, role, confirmation))
    \/ initialized /\ \E sender \in Addr, logic \in Logics :
           delegate("upgradeToAndCall", upgradeToAndCall(sender, logic))
    \/ initialized /\ \E sender \in Addr, version \in Versions :
           setVersion(sender, version)
    \/ initialized /\ \E sender \in Addr, value \in 0..MaxAmount :
           delegate("receive", receive(sender, value))
    \/ initialized /\ \E sender \in Addr, value \in 0..MaxAmount :
           delegate("fallback", fallback(sender, value))
    \/ initialized /\ \E sender \in Addr, limit \in Limits : getDonorLeaderboard(sender, limit)
    \/ CallEnds
    \/ NextBlock

Spec == Init /\ [][Next]_vars

\* The registry in longer behaviours: the deployer administers, a stranger
\* proposes and donates, the wallets withdraw.  ExtraCalls more state-changing
\* steps than in Spec are followed.
InitRegistry ==
    /\ Deployed
    /\ callCount = 0 - ExtraCalls

NextRegistry ==
    \/ Deploy
    \/ initialized /\ delegate("proposeCharity", proposeCharity(Stranger, "Foo", "desc", Stranger))
    \/ initialized /\ \E id \in ProposalIds :
           delegate("approveCharity", approveCharity(Deployer, id))
    \/ initialized /\ \E id \in ProposalIds :
           delegate("rejectCharity", rejectCharity(Deployer, id))
    \/ initialized /\ \E id \in CharityIds :
           delegate("toggleCharityStatus", toggleCharityStatus(Deployer, id))
    \/ initialized /\ \E id \in CharityIds : delegate("donate", donate(Stranger, id, 1))
    \/ initialized /\ \E sender \in {UnicefWallet, Stranger}, id \in 1 .. charityCount :
           delegate("withdrawFunds", withdrawFunds(sender, id))
    \/ ReceiverReturns
    \/ ReceiverReverts
    \/ CallEnds

SpecRegistry == InitRegistry /\ [][NextRegistry]_vars

\* The upgrade in longer behaviours: donations, a withdrawal and an approval
\* before and after the logic is replaced, setVersion with two texts, by the
\* deployer and by a stranger who may be granted a role.
VersionTexts == Versions \cup {"hacked"}

NextUpgrade ==
    \/ Deploy
    \/ initialized /\ \E id \in CharityIds : delegate("donate", donate(Stranger, id, 1))
    \/ initialized /\ \E id \in 1 .. charityCount :
           delegate("withdrawFunds", withdrawFunds(UnicefWallet, id))
    \/ ReceiverReturns
    \/ ReceiverReverts
    \/ initialized /\ delegate("proposeCharity", proposeCharity(Stranger, "Foo", "desc", Stranger))
    \/ initialized /\ \E id \in ProposalIds :
           delegate("approveCharity", approveCharity(Deployer, id))
    \/ initialized /\ \E role \in Roles :
           delegate("grantRole", grantRole(Deployer, role, Stranger))
    \/ initialized /\ \E sender \in {Deployer, Stranger}, logic \in Logics :
           delegate("upgradeToAndCall", upgradeToAndCall(sender, logic))
    \/ initialized /\ \E sender \in {Deployer, Stranger}, version \in VersionTexts :
           setVersion(sender, version)
    \/ CallEnds

SpecUpgrade == InitRegistry /\ [][NextUpgrade]_vars

\* A second administrator in longer behaviours: the deployer grants ADMIN_ROLE
\* to a stranger, before or after replacing the logic by V2, and the stranger
\* makes the administrators' calls.
NextAdmin ==
    \/ Deploy
    \/ initialized /\ delegate("proposeCharity", proposeCharity(Stranger, "Foo", "desc", Stranger))
    \/ initialized /\ delegate("grantRole", grantRole(Deployer, ADMIN_ROLE, Stranger))
    \/ initialized /\ delegate("upgradeToAndCall", upgradeToAndCall(Deployer, "V2"))
    \/ initialized /\ \E id \in ProposalIds :
           delegate("approveCharity", approveCharity(Stranger, id))
    \/ initialized /\ \E id \in ProposalIds :
           delegate("rejectCharity", rejectCharity(Stranger, id))
    \/ initialized /\ \E id \in CharityIds :
           delegate("toggleCharityStatus", toggleCharityStatus(Stranger, id))
    \/ initialized /\ \E version \in VersionTexts : setVersion(Stranger, version)
    \/ CallEnds

SpecAdmin == InitRegistry /\ [][NextAdmin]_vars

\* Reads in longer behaviours: a stranger donates, the wallet withdraws, and
\* both read, the wallet also from inside the transfer, under either logic.
NextViews ==
    \/ Deploy
    \/ initialized /\ delegate("donate", donate(Stranger, 1, 1))
    \/ initialized /\ delegate("withdrawFunds", withdrawFunds(UnicefWallet, 1))
    \/ ReceiverReturns
    \/ ReceiverReverts
    \/ initialized /\ delegate("upgradeToAndCall", upgradeToAndCall(Deployer, "V2"))
    \/ initialized /\ \E sender \in {Stranger, UnicefWallet}, fn \in ViewFunctions,
                         index \in Limits : viewCall(sender, fn, index)
    \/ CallEnds

SpecViews == InitRegistry /\ [][NextViews]_vars

\* Several donors and charities in longer behaviours: a proposal is approved,
\* the deployer and a stranger donate to either charity, the wallets withdraw.
NextDonors ==
    \/ Deploy
    \/ initialized /\ delegate("proposeCharity", proposeCharity(Stranger, "Foo", "desc", Stranger))
    \/ initialized /\ \E id \in 1 .. proposalCount :
           delegate("approveCharity", approveCharity(Deployer, id))
    \/ initialized /\ \E sender \in {Deployer, Stranger}, id \in 1 .. charityCount :
           delegate("donate", donate(sender, id, 1))
    \/ initialized /\ \E sender \in {UnicefWallet, Stranger}, id \in 1 .. charityCount :
           delegate("withdrawFunds", withdrawFunds(sender, id))
    \/ ReceiverReturns
    \/ ReceiverReverts
    \/ CallEnds

SpecDonors == InitRegistry /\ [][NextDonors]_vars

\* Administration around an escrow in longer behaviours: a stranger donates to
\* the seeded charity; the deployer toggles it, grants and revokes ADMIN_ROLE
\* and replaces the logic; the wallet and the stranger call withdrawFunds.
NextGovernance ==
    \/ Deploy
    \/ initialized /\ delegate("donate", donate(Stranger, 1, 1))
    \/ initialized /\ delegate("toggleCharityStatus", toggleCharityStatus(Deployer, 1))
    \/ initialized /\ delegate("grantRole", grantRole(Deployer, ADMIN_ROLE, Stranger))
    \/ initialized /\ delegate("revokeRole", revokeRole(Deployer, ADMIN_ROLE, Stranger))
    \/ initialized /\ \E logic \in Logics :
           delegate("upgradeToAndCall", upgradeToAndCall(Deployer, logic))
    \/ initialized /\ \E sender \in {UnicefWallet, Stranger} :
           delegate("withdrawFunds", withdrawFunds(sender, 1))
    \/ ReceiverReturns
    \/ ReceiverReverts
    \/ CallEnds

SpecGovernance == InitRegistry /\ [][NextGovernance]_vars

\* Two charities with one wallet in longer behaviours: a proposal naming the
\* wallet of the seeded charity is approved, a stranger donates to both, the
\* wallet withdraws for one or the other.
NextSharedWallet ==
    \/ Deploy
    \/ initialized /\ delegate("proposeCharity", proposeCharity(Stranger, "Foo", "desc", UnicefWallet))
    \/ initialized /\ \E id \in 1 .. proposalCount :
           delegate("approveCharity", approveCharity(Deployer, id))
    \/ initialized /\ \E id \in 1 .. charityCount :
           delegate("donate", donate(Stranger, id, 1))
    \/ initialized /\ \E id \in 1 .. charityCount :
           delegate("withdrawFunds", withdrawFunds(UnicefWallet, id))
    \/ ReceiverReturns
    \/ ReceiverReverts
    \/ CallEnds

SpecSharedWallet == InitRegistry /\ [][NextSharedWallet]_vars

\* A receiver that calls back in longer behaviours: the wallet of the seeded
\* charity, which the deployer may grant ADMIN_ROLE, proposes, approves,
\* rejects and toggles, between calls and from inside the transfer of its
\* withdrawal, and then accepts or rejects the transfer.
NextNested ==
    \/ Deploy
    \/ initialized /\ delegate("donate", donate(Stranger, 1, 1))
    \/ initialized /\ delegate("grantRole", grantRole(Deployer, ADMIN_ROLE, UnicefWallet))
    \/ initialized /\ delegate("withdrawFunds", withdrawFunds(UnicefWallet, 1))
    \/ initialized /\ delegate("proposeCharity", proposeCharity(UnicefWallet, "Foo", "desc", Stranger))
    \/ initialized /\ \E id \in 1 .. proposalCount :
           delegate("approveCharity", approveCharity(UnicefWallet, id))
    \/ initialized /\ \E id \in 1 .. proposalCount :
           delegate("rejectCharity", rejectCharity(UnicefWallet, id))
    \/ initialized /\ \E id \in 1 .. charityCount :
           delegate("toggleCharityStatus", toggleCharityStatus(UnicefWallet, id))
    \/ ReceiverReturns
    \/ ReceiverReverts
    \/ CallEnds

SpecNested == InitRegistry /\ [][NextNested]_vars

\* Every function under either logic: each function of the V1 logic is
\* called before and after the logic is replaced, by the deployer, a stranger
\* or the wallet, with arguments it accepts and arguments it refuses.
\* LogicCalls more state-changing steps than in Spec are followed.
InitLogics ==
    /\ Deployed
    /\ callCount = 0 - LogicCalls

NextLogics ==
    \/ Deploy
    \/ initialized /\ delegate("initialize", initialize(Stranger))
    \/ initialized /\ \E id \in CharityIds, value \in 0 .. 1 :
           delegate("donate", donate(Stranger, id, value))
    \/ initialized /\ \E sender \in {UnicefWallet, Stranger}, id \in CharityIds :
           delegate("withdrawFunds", withdrawFunds(sender, id))
    \/ ReceiverReturns
    \/ ReceiverReverts
    \/ initialized /\ \E name \in Names :
           delegate("proposeCharity", proposeCharity(Stranger, name, "desc", Stranger))
    \/ initialized /\ \E sender \in {Deployer, Stranger}, id \in ProposalIds :
           delegate("approveCharity", approveCharity(sender, id))
    \/ initialized /\ \E sender \in {Deployer, Stranger}, id \in ProposalIds :
           delegate("rejectCharity", rejectCharity(sender, id))
    \/ initialized /\ \E sender \in {Deployer, Stranger}, id \in CharityIds :
           delegate("toggleCharityStatus", toggleCharityStatus(sender, id))
    \/ initialized /\ \E sender \in {Deployer, Stranger} :
           delegate("grantRole", grantRole(sender, ADMIN_ROLE, Stranger))
    \/ initialized /\ \E sender \in {Deployer, Stranger} :
           delegate("revokeRole", revokeRole(sender, ADMIN_ROLE, Stranger))
    \/ initialized /\ \E confirmation \in {Deployer, Stranger} :
           delegate("renounceRole", renounceRole(Stranger, ADMIN_ROLE, confirmation))
    \/ initialized /\ \E sender \in {Deployer, Stranger}, logic \in Logics :
           delegate("upgradeToAndCall", upgradeToAndCall(sender, logic))
    \/ initialized /\ \E version \in Versions : setVersion(Deployer, version)
    \/ initialized /\ \E value \in 0 .. 1 : delegate("receive", receive(Stranger, value))
    \/ initialized /\ \E value \in 0 .. 1 : delegate("fallback", fallback(Stranger, value))
    \/ initialized /\ \E fn \in ViewFunctions, index \in 0 .. 1 :
           viewCall(Stranger, fn, index)
    \/ CallEnds

SpecLogics == InitLogics /\ [][NextLogics]_vars

\* A receiver that calls back into the guarded functions in longer
\* behaviours: a stranger donates to the seeded charity, the deployer may
\* deactivate it, its wallet withdraws, and from inside the transfer the
\* wallet calls donate and withdrawFunds with every id, with and without
\* value, before it accepts or rejects the transfer.
NextReentrancy ==
    \/ Deploy
    \/ initialized /\ \E sender \in {Stranger, UnicefWallet}, id \in CharityIds,
                         value \in 0 .. 1 : delegate("donate", donate(sender, id, value))
    \/ initialized /\ delegate("toggleCharityStatus", toggleCharityStatus(Deployer, 1))
    \/ initialized /\ \E id \in CharityIds :
           delegate("withdrawFunds", withdrawFunds(UnicefWallet, id))
    \/ ReceiverReturns
    \/ ReceiverReverts
    \/ CallEnds

SpecReentrancy == InitRegistry /\ [][NextReentrancy]_vars

----------------------------------------------------------------------------
(* Quantities the properties speak of *)

\* Everything a call can change, apart from the record of the call itself.
ledgerState == <<storage, ethBalance, logs, callStack, withdrawn, now>>

\* function getContractBalance(): address(this).balance
getContractBalance == ethBalance[Ledger]

\* a proposal that getPendingProposals returns: !isProcessed
isPending(proposal) == ~proposal.isProcessed

\* function getPendingProposals(): the unprocessed proposals, in id order
getPendingProposals == SelectSeq(proposals, isPending)

\* recentIndex as it would be reading the history from its start
recentIndex_oldestFirst(historyLen, i) == i

\* getRecentDonations, line 475: the index historyLen - 1 - i of the record
\* copied to recent[i] (both counted from 0)
recentIndex(historyLen, i) == historyLen - 1 - i

\* function getRecentDonations(uint256 _limit): the array recent, whose entry
\* i (from 0) is entry i + 1 of the sequence
getRecentDonations(_limit) ==
    LET historyLen == Len(donationHistory)
        count == IF _limit < historyLen THEN _limit ELSE historyLen
    IN  [k \in 1 .. count |-> donationHistory[recentIndex(historyLen, k - 1) + 1]]

RECURSIVE SumBalances(_)
\* charityBalances[1] + ... + charityBalances[n]
SumBalances(n) == IF n = 0 THEN 0 ELSE charityBalances[n] + SumBalances(n - 1)

RECURSIVE SumHistory(_, _)
\* the amounts of the first n donationHistory records whose charityId is id
SumHistory(id, n) ==
    IF n = 0 THEN 0
    ELSE (IF donationHistory[n].charityId = id THEN donationHistory[n].amount ELSE 0)
         + SumHistory(id, n - 1)

\* The calls the reentrancy guard covers, made by anyone with any arguments.
GuardedCall ==
    \/ \E sender \in Addr, id \in 0 .. (charityCount + 1), value \in 0 .. MaxAmount :
           donate(sender, id, value)
    \/ \E sender \in Addr, id \in 0 .. (charityCount + 1) : withdrawFunds(sender, id)

----------------------------------------------------------------------------
(* Properties *)

\* C1. Conservation: between top-level calls the ledger's own balance equals
\* the sum of charityBalances[r] over the charities 1..charityCount.
C1_Conservation ==
    ~InTransfer => getContractBalance = SumBalances(charityCount)

\* C1 is met after a donation has been paid out again.
C1_Witness ==
    /\ ~InTransfer
    /\ lastCall = Call("withdrawFunds")
    /\ totalDonations > 0
    /\ getContractBalance = 0

\* C2. Per-recipient conservation: between calls, for every charity r, escrow
\* plus everything withdrawn for r equals the sum of the donationHistory
\* amounts recorded for r, which equals charities[r].totalReceived.
C2_RecipientConservation ==
    ~InTransfer =>
        \A r \in 1 .. charityCount :
            /\ charityBalances[r] + withdrawn[r] = SumHistory(r, Len(donationHistory))
            /\ SumHistory(r, Len(donationHistory)) = charities[r].totalReceived

\* C2 is met with value withdrawn: the escrow is empty and the history is not.
C2_Witness ==
    /\ ~InTransfer
    /\ \E r \in 1 .. charityCount :
           /\ withdrawn[r] > 0
           /\ charityBalances[r] = 0
           /\ charities[r].totalReceived = withdrawn[r]

\* Calls made by the receiver of a transfer to the functions under the guard.
NestedGuardedCall == InTransfer /\ GuardedCall

\* C3 as stated: every nested donate or withdrawFunds, whatever its id, fails
\* with the guard's ReentrantCall error and changes nothing.
C3_EveryNestedCallIsReentrantCall ==
    [][NestedGuardedCall => /\ lastCall'.err = ErrReentrant
                            /\ UNCHANGED ledgerState]_vars

\* C3, amended. A nested withdrawFunds (any id) fails with ReentrantCall; a
\* nested donate fails with "Invalid charity ID" for an id outside
\* 1..charityCount, with "Charity is not active" for an inactive charity, and
\* with ReentrantCall otherwise; none of them changes anything.  When the
\* receiver then returns, the outer withdrawFunds ends with escrow[r] = 0, its
\* pre-call escrow moved once to the wallet, and every other balance as before.
C3_NestedCallsFail ==
    [][/\ \A sender \in Addr, id \in 0 .. (charityCount + 1) :
             InTransfer /\ withdrawFunds(sender, id) =>
                 lastCall'.err = ErrReentrant /\ UNCHANGED ledgerState
       /\ \A sender \in Addr, id \in 0 .. (charityCount + 1), value \in 0 .. MaxAmount :
             InTransfer /\ donate(sender, id, value) =>
                 /\ lastCall'.err = IF ~(id > 0 /\ id <= charityCount) THEN ErrInvalidCharity
                                    ELSE IF ~charities[id].isActive THEN ErrNotActive
                                    ELSE ErrReentrant
                 /\ UNCHANGED ledgerState
       /\ ReceiverReturns =>
             /\ lastCall' = Call("withdrawFunds")
             /\ Top.balance = Top.saved.charityBalances[Top.charityId]
             /\ charityBalances' = [Top.saved.charityBalances EXCEPT ![Top.charityId] = 0]
             /\ ethBalance' = [Top.saved.ethBalance EXCEPT
                                  ![Ledger] = @ - Top.balance,
                                  ![Top.wallet] = @ + Top.balance]
      ]_vars

\* C3 is met when the charity being paid out had been deactivated and the
\* receiver, inside the transfer, has sent it a donation with value: the call
\* is refused as to an inactive charity, before the guard is looked at.
C3_Witness ==
    /\ InTransfer
    /\ locked
    /\ ~charities[Top.charityId].isActive
    /\ lastCall = [op |-> "donate", err |-> ErrNotActive]

\* The events FundsWithdrawn in a sequence of logs.
FundsWithdrawnIn(events) ==
    {i \in 1 .. Len(events) : events[i].event = "FundsWithdrawn"}

\* C4. Rollback on transfer failure: when the wallet rejects the transfer of
\* withdrawFunds(r) the call fails with "Transfer failed" and the state is the
\* one before the call: escrow[r] has its pre-call value again, the ledger's
\* balance is what it was, and the call leaves no FundsWithdrawn event.
C4_TransferFailureRollsBack ==
    [][ReceiverReverts =>
          /\ lastCall'.err = ErrTransferFailed
          /\ charityBalances'[Top.charityId] = Top.balance
          /\ charityBalances' = [charityBalances EXCEPT ![Top.charityId] = Top.balance]
          /\ getContractBalance' = getContractBalance + Top.balance
          /\ ethBalance'[Top.wallet] = ethBalance[Top.wallet] - Top.balance
          /\ withdrawn' = withdrawn
          /\ FundsWithdrawnIn(logs') = {}
          /\ getContractBalance' = SumBalances(charityCount)'
      ]_vars

\* C4 is met when a withdrawFunds has failed on its transfer and the escrow is
\* still there.
C4_Witness ==
    /\ ~InTransfer
    /\ lastCall = [op |-> "withdrawFunds", err |-> ErrTransferFailed]
    /\ \E r \in 1 .. charityCount : charityBalances[r] > 0 /\ withdrawn[r] = 0

\* C5. The guard is released on every exit path: between top-level calls the
\* flag is clear, whatever the outcome of the calls before, and no top-level
\* donate or withdrawFunds is refused with ReentrantCall.
C5_GuardReleased ==
    ~InTransfer =>
        /\ ~locked
        /\ lastCall.op \in {"donate", "withdrawFunds"} => lastCall.err # ErrReentrant

\* C5 is met on a failure path: a withdrawFunds that took the guard has failed
\* on its transfer and the guard is free again.
C5_Witness ==
    /\ ~InTransfer
    /\ ~locked
    /\ lastCall = [op |-> "withdrawFunds", err |-> ErrTransferFailed]

\* The accounts that hold ADMIN_ROLE or DEFAULT_ADMIN_ROLE.
Admins == roles[ADMIN_ROLE] \cup roles[DEFAULT_ADMIN_ROLE]

\* C6. Withdraw authorization: withdrawFunds(r) for an existing charity r by a
\* caller other than r's registered wallet, admins included, fails with "Only
\* charity wallet can withdraw" (inside a transfer the guard refuses it first)
\* and moves nothing; and value leaves the ledger only as the whole escrow of
\* one charity, debited, going to that charity's registered wallet.
C6_OnlyWalletWithdraws ==
    [][/\ \A sender \in Addr, id \in 1 .. charityCount :
             sender # charities[id].walletAddress /\ withdrawFunds(sender, id) =>
                 /\ lastCall'.err = IF locked THEN ErrReentrant ELSE ErrNotWallet
                 /\ UNCHANGED ledgerState
       /\ getContractBalance' < getContractBalance =>
             \E id \in 1 .. charityCount :
                 /\ charityBalances[id] > 0
                 /\ charityBalances' = [charityBalances EXCEPT ![id] = 0]
                 /\ ethBalance' = [ethBalance EXCEPT
                        ![Ledger] = @ - charityBalances[id],
                        ![charities[id].walletAddress] = @ + charityBalances[id]]
      ]_vars

\* C6 is met when a withdrawFunds on a funded charity has been refused because
\* the caller is not its wallet.
C6_Witness ==
    /\ lastCall = [op |-> "withdrawFunds", err |-> ErrNotWallet]
    /\ \E r \in 1 .. charityCount : charityBalances[r] > 0

\* C7. Role-gated operations reject role-less callers: approveCharity,
\* rejectCharity and toggleCharityStatus by an account holding neither role fail
\* with "Caller is not an admin", grantRole by such an account fails with
\* AccessControlUnauthorizedAccount, and nothing changes.
C7_RoleLessCallersRejected ==
    [][\A sender \in Addr \ Admins :
          /\ \A id \in 0 .. (proposalCount + 1) :
                 approveCharity(sender, id) \/ rejectCharity(sender, id) =>
                     lastCall'.err = ErrNotAdmin /\ UNCHANGED ledgerState
          /\ \A id \in 0 .. (charityCount + 1) :
                 toggleCharityStatus(sender, id) =>
                     lastCall'.err = ErrNotAdmin /\ UNCHANGED ledgerState
          /\ \A role \in Roles, account \in Addr :
                 grantRole(sender, role, account) =>
                     lastCall'.err = ErrAccessControl /\ UNCHANGED ledgerState
      ]_vars

\* C7 is met when a pending proposal exists and a gated call has been refused
\* for want of a role.
C7_Witness ==
    /\ lastCall.op \in {"approveCharity", "rejectCharity", "toggleCharityStatus"}
    /\ lastCall.err = ErrNotAdmin
    /\ \E id \in 1 .. proposalCount : ~proposals[id].isProcessed

\* C8. Exactly-once processing: an approveCharity or rejectCharity that succeeds
\* on a proposal finds it unprocessed and leaves it processed; a processed
\* proposal stays processed (unless the transaction that processed it is
\* reverted); and every approveCharity or rejectCharity by an admin on a
\* processed proposal fails with "Proposal already processed" and changes
\* nothing.
C8_ProcessedOnce ==
    [][\A id \in 1 .. proposalCount :
          /\ \A sender \in Addr :
                 /\ approveCharity(sender, id) \/ rejectCharity(sender, id)
                 /\ lastCall'.err = OK
                 => ~proposals[id].isProcessed /\ proposals'[id].isProcessed
          /\ proposals[id].isProcessed /\ ~ReceiverReverts =>
                 proposalCount' >= id /\ proposals'[id].isProcessed
          /\ \A sender \in Admins :
                 /\ proposals[id].isProcessed
                 /\ approveCharity(sender, id) \/ rejectCharity(sender, id)
                 => lastCall'.err = ErrProcessed /\ UNCHANGED ledgerState
      ]_vars

\* C8 is met when a second call on a processed proposal has been refused.
C8_Witness ==
    /\ lastCall.op \in {"approveCharity", "rejectCharity"}
    /\ lastCall.err = ErrProcessed
    /\ \E id \in 1 .. proposalCount : proposals[id].isProcessed

\* C9. Successful withdraw: with the guard free, withdrawFunds(r) by r's wallet
\* with escrow b > 0 moves exactly b from the ledger to the wallet and zeroes
\* the escrow, and when the wallet accepts, the call returns with the escrow
\* still 0 and b counted as withdrawn; withdrawFunds fails with "Invalid
\* charity ID" for an id outside 1..charityCount and, called by the wallet,
\* with "No funds to withdraw" whenever the escrow is 0, changing nothing.
C9_Withdraw ==
    [][/\ \A sender \in Addr, id \in 0 .. (charityCount + 1) :
             ~locked /\ withdrawFunds(sender, id) =>
                 IF ~(id > 0 /\ id <= charityCount)
                 THEN lastCall'.err = ErrInvalidCharity /\ UNCHANGED ledgerState
                 ELSE IF sender # charities[id].walletAddress THEN TRUE
                 ELSE IF charityBalances[id] = 0
                 THEN lastCall'.err = ErrNoFunds /\ UNCHANGED ledgerState
                 ELSE /\ lastCall'.err = Running
                      /\ charityBalances' = [charityBalances EXCEPT ![id] = 0]
                      /\ ethBalance' = [ethBalance EXCEPT
                             ![Ledger] = @ - charityBalances[id],
                             ![sender] = @ + charityBalances[id]]
       /\ ReceiverReturns =>
             /\ lastCall' = Call("withdrawFunds")
             /\ charityBalances'[Top.charityId] = 0
             /\ UNCHANGED <<charityBalances, ethBalance>>
             /\ withdrawn' = [withdrawn EXCEPT ![Top.charityId] = @ + Top.balance]
             /\ FundsWithdrawnIn(logs') # {}
      ]_vars

\* C9 is met when, after a withdrawal, a second withdrawFunds on the emptied
\* escrow has been refused.
C9_Witness ==
    /\ ~InTransfer
    /\ lastCall = [op |-> "withdrawFunds", err |-> ErrNoFunds]
    /\ \E r \in 1 .. charityCount : withdrawn[r] > 0 /\ charityBalances[r] = 0

\* C10. Donate preconditions: donate(id) fails with "Invalid charity ID" for an
\* id outside 1..charityCount (0 and the never-allocated id included), with
\* "Charity is not active" for an inactive charity, and, for an active charity
\* and the guard free, with "Donation amount must be greater than 0" when
\* msg.value is 0; in each case nothing changes and no value stays with the
\* ledger.
C10_DonatePreconditions ==
    [][\A sender \in Addr, id \in 0 .. (charityCount + 1), value \in 0 .. MaxAmount :
          donate(sender, id, value) =>
              IF ~(id > 0 /\ id <= charityCount)
              THEN lastCall'.err = ErrInvalidCharity /\ UNCHANGED ledgerState
              ELSE IF ~charities[id].isActive
              THEN lastCall'.err = ErrNotActive /\ UNCHANGED ledgerState
              ELSE IF ~locked /\ value = 0
              THEN lastCall'.err = ErrZeroDonation /\ UNCHANGED ledgerState
              ELSE TRUE
      ]_vars

\* C10 is met when a donation to a deactivated charity has been refused.
C10_Witness ==
    /\ lastCall = [op |-> "donate", err |-> ErrNotActive]
    /\ \E r \in 1 .. charityCount : ~charities[r].isActive

\* C11. Donate effects: a donate(r) by c with msg.value a that returns has
\* a > 0, adds exactly a to charities[r].totalReceived, charityBalances[r],
\* totalDonations and donorTotalDonations[c], pushes the one record
\* (c, r, a, block.timestamp) at the end of donationHistory, emits the one
\* event DonationReceived(c, r, a, block.timestamp), and moves value only from
\* c to the ledger; the other charities' and donors' totals are unchanged.
C11_DonateEffects ==
    [][\A sender \in Addr, id \in 0 .. (charityCount + 1), value \in 0 .. MaxAmount :
          donate(sender, id, value) /\ lastCall'.err = OK =>
              /\ value > 0
              /\ charityCount' = charityCount
              /\ \A r \in 1 .. charityCount :
                     /\ charities'[r].totalReceived
                            = charities[r].totalReceived + (IF r = id THEN value ELSE 0)
                     /\ charityBalances'[r]
                            = charityBalances[r] + (IF r = id THEN value ELSE 0)
              /\ totalDonations' = totalDonations + value
              /\ \A a \in Addr :
                     donorTotalDonations'[a]
                         = donorTotalDonations[a] + (IF a = sender THEN value ELSE 0)
              /\ Len(donationHistory') = Len(donationHistory) + 1
              /\ SubSeq(donationHistory', 1, Len(donationHistory)) = donationHistory
              /\ donationHistory'[Len(donationHistory')]
                     = [donor |-> sender, charityId |-> id, amount |-> value,
                        timestamp |-> now]
              /\ logs' = Append(logs, [event |-> "DonationReceived", donor |-> sender,
                                       charityId |-> id, amount |-> value,
                                       timestamp |-> now])
              /\ ethBalance' = [ethBalance EXCEPT ![sender] = @ - value,
                                                  ![Ledger] = @ + value]
              /\ UNCHANGED <<withdrawn, callStack>>
      ]_vars

\* C11 is met when a second donation, by another donor, has been added to the
\* first.
C11_Witness ==
    /\ lastCall = Call("donate")
    /\ Len(donationHistory) = 2
    /\ donationHistory[1].donor # donationHistory[2].donor
    /\ totalDonations = donationHistory[1].amount + donationHistory[2].amount

\* C12. Monotonicity: in every step, whatever the call and its outcome,
\* totalDonations, every charity's totalReceived and every donor's
\* donorTotalDonations do not decrease.
C12_TotalsNeverDecrease ==
    [][/\ totalDonations' >= totalDonations
       /\ charityCount' >= charityCount
       /\ \A r \in 1 .. charityCount :
              charities'[r].totalReceived >= charities[r].totalReceived
       /\ \A a \in Addr : donorTotalDonations'[a] >= donorTotalDonations[a]
      ]_vars

\* C12 is met when the totals have outlived the withdrawal of the donations.
C12_Witness ==
    /\ lastCall = Call("withdrawFunds")
    /\ charityBalances[1] = 0
    /\ charities[1].totalReceived > 0
    /\ \E a \in Addr : donorTotalDonations[a] = totalDonations /\ totalDonations > 0

\* The addresses in donorAddresses.
Donors == {donorAddresses[i] : i \in 1 .. Len(donorAddresses)}

\* C13. Contributor-index uniqueness: donorAddresses never holds an address
\* twice and holds exactly the addresses that have donated; a donate that
\* returns appends its sender when the sender is not yet in the index and leaves
\* the index alone when it is, and no other step changes the index.
C13_DonorsUnique ==
    /\ [](/\ \A i, j \in 1 .. Len(donorAddresses) :
                 donorAddresses[i] = donorAddresses[j] => i = j
          /\ \A a \in Addr : (a \in Donors) <=> (donorTotalDonations[a] > 0))
    /\ [][/\ \A sender \in Addr, id \in 0 .. (charityCount + 1), value \in 0 .. MaxAmount :
                 donate(sender, id, value) /\ lastCall'.err = OK =>
                     donorAddresses' = IF sender \in Donors THEN donorAddresses
                                       ELSE Append(donorAddresses, sender)
          /\ donorAddresses' # donorAddresses =>
                 \E sender \in Addr, id \in 1 .. charityCount, value \in 1 .. MaxAmount :
                     donate(sender, id, value) /\ lastCall'.err = OK
         ]_vars

\* C13 is met when an address has donated twice and is in the index once.
C13_Witness ==
    /\ Len(donationHistory) = 2
    /\ donationHistory[1].donor = donationHistory[2].donor
    /\ donorAddresses = << donationHistory[1].donor >>

\* C14. Proposal flags: every proposal 1..proposalCount is stored under its id
\* and has isApproved => isProcessed, so it is pending (FALSE, FALSE), approved
\* (TRUE, TRUE) or rejected (TRUE, FALSE), never (FALSE, TRUE).
C14_ApprovedImpliesProcessed ==
    /\ Len(proposals) = proposalCount
    /\ \A p \in 1 .. proposalCount :
           /\ proposals[p].id = p
           /\ proposals[p].isApproved => proposals[p].isProcessed
           /\ << proposals[p].isProcessed, proposals[p].isApproved >>
                  \in {<<FALSE, FALSE>>, <<TRUE, TRUE>>, <<TRUE, FALSE>>}

\* C14 is met when a proposal has been approved.
C14_Witness ==
    \E p \in 1 .. proposalCount : proposals[p].isProcessed /\ proposals[p].isApproved

\* C15. Processed proposals are immutable: a proposal with isProcessed = TRUE
\* keeps every field (name, description, walletAddress, proposer, isProcessed,
\* isApproved) in every later step, so an approved one is never rejected or
\* pending again and a rejected one is never approved; a charity is added after
\* initialization only by the step that turns a pending proposal into an
\* approved one, with that proposal's fields, so a rejected proposal never
\* yields a charity.  When a transfer fails, the withdrawFunds transaction is
\* reverted with the calls made inside it; the proposals processed before it
\* began keep their fields.
C15_ProcessedImmutable ==
    [][/\ ~ReceiverReverts =>
              /\ \A p \in 1 .. proposalCount :
                     proposals[p].isProcessed =>
                         proposalCount' >= p /\ proposals'[p] = proposals[p]
              /\ initialized /\ charityCount' # charityCount =>
                     /\ charityCount' = charityCount + 1
                     /\ \E p \in 1 .. proposalCount :
                            /\ ~proposals[p].isProcessed
                            /\ proposals'[p].isProcessed /\ proposals'[p].isApproved
                            /\ charities'[charityCount'].name = proposals[p].name
                            /\ charities'[charityCount'].walletAddress
                                   = proposals[p].walletAddress
       /\ ReceiverReverts =>
              \A p \in 1 .. Top.saved.proposalCount :
                  Top.saved.proposals[p].isProcessed =>
                      /\ proposals[p] = Top.saved.proposals[p]
                      /\ proposalCount' >= p /\ proposals'[p] = proposals[p]
      ]_vars

\* C15 is met when a rejected proposal has stayed rejected while a later
\* proposal was approved.
C15_Witness ==
    /\ lastCall = Call("approveCharity")
    /\ proposalCount = 2
    /\ proposals[1].isProcessed /\ ~proposals[1].isApproved
    /\ proposals[2].isApproved
    /\ charityCount = 2

\* C16. proposeCharity is open to every caller, with or without a role.  It
\* fails, changing nothing, exactly when the name is empty ("Name cannot be
\* empty") or the wallet is address(0) ("Invalid wallet address"); otherwise
\* it adds one to proposalCount, stores under the new count a proposal with
\* the given fields, proposer = msg.sender and both flags false, and emits
\* CharityProposed with that id; the proposals already stored, the charities
\* and the rest of the state are unchanged.
C16_ProposeCharity ==
    [][\A sender \in Addr, name \in Names, walletAddress \in Wallets :
          proposeCharity(sender, name, "desc", walletAddress) =>
              IF name = ""
              THEN lastCall'.err = ErrEmptyName /\ UNCHANGED ledgerState
              ELSE IF walletAddress = ZeroAddress
              THEN lastCall'.err = ErrInvalidWallet /\ UNCHANGED ledgerState
              ELSE /\ lastCall'.err = OK
                   /\ proposalCount' = proposalCount + 1
                   /\ Len(proposals') = proposalCount'
                   /\ SubSeq(proposals', 1, proposalCount) = proposals
                   /\ proposals'[proposalCount']
                          = [id |-> proposalCount + 1, name |-> name,
                             description |-> "desc", walletAddress |-> walletAddress,
                             proposer |-> sender, isProcessed |-> FALSE,
                             isApproved |-> FALSE]
                   /\ logs' = Append(logs, [event |-> "CharityProposed",
                                            proposer |-> sender, name |-> name,
                                            walletAddress |-> walletAddress,
                                            proposalId |-> proposalCount + 1])
                   /\ UNCHANGED <<charityCount, charities, charityBalances,
                                  totalDonations, donorTotalDonations, donationHistory,
                                  donorAddresses, isDonor, roles, ethBalance, locked,
                                  withdrawn, callStack>>
      ]_vars

\* C16 is met when an account without a role has added a second proposal.
C16_Witness ==
    /\ lastCall = Call("proposeCharity")
    /\ proposalCount = 2
    /\ proposals[2].proposer \notin Admins
    /\ proposals[2].id = 2

\* The ids of the proposals getPendingProposals returns.
PendingIds == {getPendingProposals[i].id : i \in 1 .. Len(getPendingProposals)}

\* C17. Approval creates the charity: an approveCharity(p) that returns found p
\* pending, sets isProcessed and isApproved on p and on no other proposal, and
\* adds exactly one charity, with id = old charityCount + 1, the name,
\* description and wallet of p, totalReceived 0, isActive true and escrow 0,
\* leaving the charities before it as they were; afterwards p is not among the
\* pending proposals and CharityApproved carries the new charity id.
C17_ApprovalCreatesCharity ==
    [][\A sender \in Addr, p \in 0 .. (proposalCount + 1) :
          approveCharity(sender, p) /\ lastCall'.err = OK =>
              /\ p \in PendingIds
              /\ proposals' = [proposals EXCEPT ![p].isProcessed = TRUE,
                                                ![p].isApproved = TRUE]
              /\ p \notin PendingIds'
              /\ PendingIds' = PendingIds \ {p}
              /\ charityCount' = charityCount + 1
              /\ Len(charities') = charityCount'
              /\ SubSeq(charities', 1, charityCount) = charities
              /\ charities'[charityCount']
                     = [id |-> charityCount + 1, name |-> proposals[p].name,
                        description |-> proposals[p].description,
                        walletAddress |-> proposals[p].walletAddress,
                        totalReceived |-> 0, isActive |-> TRUE]
              /\ charityBalances'[charityCount'] = 0
              /\ charityBalances' = charityBalances
              /\ logs' = Append(logs, [event |-> "CharityApproved",
                                       charityId |-> charityCount + 1,
                                       name |-> proposals[p].name,
                                       walletAddress |-> proposals[p].walletAddress])
      ]_vars

\* C17 is met when a second approval has created the charity with id 3 and no
\* proposal is pending.
C17_Witness ==
    /\ lastCall = Call("approveCharity")
    /\ charityCount = 3
    /\ charities[3].id = 3 /\ charities[3].isActive /\ charityBalances[3] = 0
    /\ proposals[2].isApproved
    /\ PendingIds = {}

\* The proposals that have been approved.
ApprovedIds == {p \in 1 .. proposalCount : proposals[p].isApproved}

\* C18. Recipient count accounting: once initialized, charityCount is the one
\* charity seeded by initialize plus the number of approved proposals, and
\* every id 1..charityCount holds a charity; a returning approveCharity adds
\* exactly one to charityCount, rejectCharity leaves it unchanged, and no other
\* call after initialization changes it.
C18_CharityCount ==
    /\ [](/\ Len(charities) = charityCount
          /\ charityCount = (IF initialized THEN 1 ELSE 0) + Cardinality(ApprovedIds)
          /\ \A r \in 1 .. charityCount : charities[r].id = r)
    /\ [][/\ \A sender \in Addr, p \in 0 .. (proposalCount + 1) :
                 /\ approveCharity(sender, p) /\ lastCall'.err = OK
                        => charityCount' = charityCount + 1
                 /\ rejectCharity(sender, p) => charityCount' = charityCount
          /\ initialized /\ charityCount' # charityCount /\ ~ReceiverReverts =>
                 \E sender \in Addr, p \in 1 .. proposalCount :
                     approveCharity(sender, p) /\ lastCall'.err = OK
         ]_vars

\* C18 is met when one proposal has been approved and another rejected.
C18_Witness ==
    /\ charityCount = 2
    /\ proposalCount = 2
    /\ \E p, q \in 1 .. proposalCount :
           /\ proposals[p].isApproved
           /\ proposals[q].isProcessed /\ ~proposals[q].isApproved
    /\ lastCall = Call("rejectCharity")

\* C19. toggleCharityStatus by an admin: for an id in 1..charityCount it flips
\* the isActive flag of that charity and of no other, and emits
\* CharityStatusChanged with the new value; the charity's escrow and
\* totalReceived, the other charities, the proposals, the totals, the history
\* and the balances are unchanged, so a second toggle of the same id restores
\* the state before the first; for an id outside 1..charityCount it fails with
\* "Invalid charity ID" and changes nothing.
C19_ToggleCharityStatus ==
    [][\A sender \in Admins, id \in 0 .. (charityCount + 1) :
          toggleCharityStatus(sender, id) =>
              IF ~(id > 0 /\ id <= charityCount)
              THEN lastCall'.err = ErrInvalidCharity /\ UNCHANGED ledgerState
              ELSE /\ lastCall'.err = OK
                   /\ charities' = [charities EXCEPT ![id].isActive = ~charities[id].isActive]
                   /\ [charities' EXCEPT ![id].isActive = ~charities'[id].isActive]
                          = charities
                   /\ logs' = Append(logs, [event |-> "CharityStatusChanged",
                                            charityId |-> id,
                                            isActive |-> ~charities[id].isActive])
                   /\ UNCHANGED <<charityCount, proposalCount, proposals,
                                  charityBalances, totalDonations, donorTotalDonations,
                                  isDonor, donationHistory, donorAddresses, roles,
                                  initialized, locked, contractVersion, implementation,
                                  ethBalance, now, callStack, withdrawn>>
      ]_vars

\* C19 is met when the second of two charities has been toggled off and on
\* again while the first holds a donation.
C19_Witness ==
    /\ lastCall = Call("toggleCharityStatus")
    /\ charityCount = 2
    /\ logs = << [event |-> "CharityStatusChanged", charityId |-> 2, isActive |-> TRUE] >>
    /\ charities[1].isActive /\ charities[2].isActive
    /\ charityBalances[1] > 0 /\ charities[1].totalReceived = charityBalances[1]

\* C20. Initialization runs exactly once: the first initialize() grants
\* DEFAULT_ADMIN_ROLE and ADMIN_ROLE to its caller and seeds the charity with
\* id 1, active, with escrow 0 and totalReceived 0; the contract stays
\* initialized, and every later initialize(), by any caller at any point,
\* fails with InvalidInitialization and changes neither roles, charities nor
\* any other state.
C20_InitializeOnce ==
    [][/\ \A sender \in Addr :
              initialize(sender) =>
                  IF ~initialized
                  THEN /\ lastCall'.err = OK
                       /\ initialized'
                       /\ roles' = [role \in Roles |-> roles[role] \cup {sender}]
                       /\ \A role \in Roles : roles'[role] = {sender}
                       /\ charityCount' = 1
                       /\ charities' = << [id |-> 1, name |-> "UNICEF",
                              description |-> "Children's rights and development advocacy",
                              walletAddress |-> UnicefWallet, totalReceived |-> 0,
                              isActive |-> TRUE] >>
                       /\ charityBalances'[1] = 0
                       /\ UNCHANGED <<proposalCount, proposals, totalDonations,
                                      ethBalance, donationHistory, donorAddresses>>
                  ELSE lastCall'.err = ErrInitialized /\ UNCHANGED ledgerState
       /\ initialized => initialized'
      ]_vars

\* C20 is met when initialize has been refused after donations were made and
\* the deployer's roles had been changed.
C20_Witness ==
    /\ lastCall = [op |-> "initialize", err |-> ErrInitialized]
    /\ totalDonations > 0
    /\ roles[ADMIN_ROLE] # {Deployer}

\* A role operation made by a holder of DEFAULT_ADMIN_ROLE.
SuperAdminRoleCall ==
    \E sender \in roles[DEFAULT_ADMIN_ROLE], role \in Roles, account \in Addr :
        \/ grantRole(sender, role, account)
        \/ revokeRole(sender, role, account)
        \/ renounceRole(sender, role, account)

\* grantRole by a caller without DEFAULT_ADMIN_ROLE, ADMIN_ROLE holders
\* included, fails with AccessControlUnauthorizedAccount and changes nothing.
GrantNeedsSuperAdmin ==
    \A sender \in Addr \ roles[DEFAULT_ADMIN_ROLE], role \in Roles, account \in Addr :
        grantRole(sender, role, account) =>
            lastCall'.err = ErrAccessControl /\ UNCHANGED ledgerState

\* C21 as stated: grantRole needs DEFAULT_ADMIN_ROLE, and the role holders
\* change only by initialization and by role operations of a holder of
\* DEFAULT_ADMIN_ROLE (a reverted transaction apart).
C21_RolesChangeOnlyBySuperAdmin ==
    [][/\ GrantNeedsSuperAdmin
       /\ roles' # roles /\ ~ReceiverReverts =>
              (~initialized /\ initialize(Deployer)) \/ SuperAdminRoleCall
      ]_vars

\* C21, amended.  grantRole needs DEFAULT_ADMIN_ROLE; an account gains a role
\* only by initialization or by a grantRole of a holder of DEFAULT_ADMIN_ROLE;
\* an account loses a role only by a revokeRole of a holder of
\* DEFAULT_ADMIN_ROLE or by its own renounceRole, which needs no role but the
\* one renounced (a reverted transaction apart).
C21_RoleHolders ==
    [][/\ GrantNeedsSuperAdmin
       /\ ~ReceiverReverts =>
              /\ (\E role \in Roles : ~(roles'[role] \subseteq roles[role])) =>
                     \/ ~initialized /\ initialize(Deployer)
                     \/ \E sender \in roles[DEFAULT_ADMIN_ROLE], role \in Roles,
                           account \in Addr :
                            /\ grantRole(sender, role, account)
                            /\ roles' = [roles EXCEPT ![role] = @ \cup {account}]
              /\ (\E role \in Roles : ~(roles[role] \subseteq roles'[role])) =>
                     \/ \E sender \in roles[DEFAULT_ADMIN_ROLE], role \in Roles,
                           account \in Addr :
                            /\ revokeRole(sender, role, account)
                            /\ roles' = [roles EXCEPT ![role] = @ \ {account}]
                     \/ \E sender \in Addr, role \in Roles :
                            /\ sender \in roles[role]
                            /\ renounceRole(sender, role, sender)
                            /\ roles' = [roles EXCEPT ![role] = @ \ {sender}]
      ]_vars

\* C21 is met when a grantRole has been refused while an account holds
\* ADMIN_ROLE without DEFAULT_ADMIN_ROLE.
C21_Witness ==
    /\ lastCall = [op |-> "grantRole", err |-> ErrAccessControl]
    /\ roles[ADMIN_ROLE] \ roles[DEFAULT_ADMIN_ROLE] # {}

\* The state of the ledger and of the registry: everything in storage but the
\* address of the logic.
dataStorage ==
    <<charityCount, proposalCount, totalDonations, charities, proposals,
      donorTotalDonations, charityBalances, isDonor, donationHistory,
      donorAddresses, roles, initialized, locked, contractVersion>>

\* C22. Upgrade gate: upgradeToAndCall replaces the logic when the caller holds
\* ADMIN_ROLE or DEFAULT_ADMIN_ROLE and is refused with "Caller is not an
\* admin" for a caller holding neither; granted or refused, the call leaves
\* the ledger and registry state, the roles and the balances as they were; and
\* the logic is replaced by no other step (a reverted transaction apart).
C22_UpgradeGate ==
    [][/\ \A sender \in Addr, logic \in Logics :
              upgradeToAndCall(sender, logic) =>
                  /\ IF sender \in roles[ADMIN_ROLE] \cup roles[DEFAULT_ADMIN_ROLE]
                     THEN /\ lastCall'.err = OK
                          /\ implementation' = logic
                          /\ logs' = Append(logs, [event |-> "Upgraded",
                                                   implementation |-> logic])
                     ELSE /\ lastCall'.err = ErrNotAdmin
                          /\ UNCHANGED <<implementation, logs>>
                  /\ UNCHANGED <<dataStorage, ethBalance, now, callStack, withdrawn>>
       /\ implementation' # implementation /\ ~ReceiverReverts =>
              \E sender \in roles[ADMIN_ROLE] \cup roles[DEFAULT_ADMIN_ROLE],
                 logic \in Logics :
                  upgradeToAndCall(sender, logic)
      ]_vars

\* C22 is met when an upgrade has been refused for a caller without a role
\* while donations are held.
C22_Witness ==
    /\ lastCall = [op |-> "upgradeToAndCall", err |-> ErrNotAdmin]
    /\ totalDonations > 0
    /\ implementation = "V1"

\* C23 as stated: an upgrade by a caller that does not hold ADMIN_ROLE, one
\* holding only DEFAULT_ADMIN_ROLE included, is rejected.
C23_UpgradeNeedsAdminRole ==
    [][\A sender \in Addr \ roles[ADMIN_ROLE], logic \in Logics :
          upgradeToAndCall(sender, logic) =>
              /\ lastCall'.err # OK
              /\ implementation' = implementation
      ]_vars

\* The error donate(id) with msg.value = value ends with under the V1 logic,
\* OK when it returns.
donateOutcome(id, value) ==
    IF ~(id > 0 /\ id <= charityCount) THEN ErrInvalidCharity
    ELSE IF ~charities[id].isActive THEN ErrNotActive
    ELSE IF locked THEN ErrReentrant
    ELSE IF value = 0 THEN ErrZeroDonation
    ELSE OK

\* The error withdrawFunds(id) by sender ends with under the V1 logic, Running
\* when it reaches its transfer.
withdrawOutcome(sender, id) ==
    IF locked THEN ErrReentrant
    ELSE IF ~(id > 0 /\ id <= charityCount) THEN ErrInvalidCharity
    ELSE IF sender # charities[id].walletAddress THEN ErrNotWallet
    ELSE IF charityBalances[id] = 0 THEN ErrNoFunds
    ELSE Running

C25_OnlyAdminRoleSetsVersion ==
    [][\A sender \in Addr \ roles[ADMIN_ROLE], version \in VersionTexts :
          setVersion(sender, version) =>
              /\ lastCall'.err # OK
              /\ contractVersion' = contractVersion
      ]_vars

\* C25. The marker contractVersion is set only by an admin: under the V2 logic
\* setVersion by a caller holding ADMIN_ROLE or DEFAULT_ADMIN_ROLE makes the
\* marker the given text and emits VersionUpdated(previous marker, new text);
\* by a caller holding neither it fails with "Caller is not an admin" and
\* changes nothing; and no other call changes the marker (a failed transfer
\* apart, which restores the marker its withdrawal started with).
C25_SetVersion ==
    [][/\ \A sender \in Addr, version \in VersionTexts :
              setVersion(sender, version) /\ implementation = "V2" =>
                  IF sender \in roles[ADMIN_ROLE] \cup roles[DEFAULT_ADMIN_ROLE]
                  THEN /\ lastCall'.err = OK
                       /\ contractVersion' = version
                       /\ logs' = Append(logs, [event |-> "VersionUpdated",
                                                oldVersion |-> contractVersion,
                                                newVersion |-> version])
                  ELSE /\ lastCall'.err = ErrNotAdmin
                       /\ UNCHANGED ledgerState
       /\ contractVersion' # contractVersion /\ ~ReceiverReverts =>
              \E sender \in roles[ADMIN_ROLE] \cup roles[DEFAULT_ADMIN_ROLE],
                 version \in VersionTexts :
                  setVersion(sender, version) /\ lastCall'.err = OK
      ]_vars

\* C25 is met when a caller without a role has been refused after an admin set
\* the marker, which is still what the admin set.
C25_Witness ==
    /\ lastCall = [op |-> "setVersion", err |-> ErrNotAdmin]
    /\ implementation = "V2"
    /\ contractVersion = "v2.0.1-beta"

\* C26. No implicit top-up: a transfer of value with no selector (receive) is
\* rejected with "Please use the donate function" and a call with an unknown
\* selector (fallback) with "Function does not exist", for every amount and
\* sender, leaving the ledger's balance and all state unchanged; and the
\* ledger's balance goes up only by the value of a donate that returned (a
\* failed transfer apart, which puts back the escrow that never left).
C26_NoImplicitTopUp ==
    [][/\ \A sender \in Addr, value \in 0 .. MaxAmount :
              /\ receive(sender, value) =>
                     /\ lastCall' = [op |-> "receive", err |-> ErrUseDonate]
                     /\ UNCHANGED ledgerState
              /\ fallback(sender, value) =>
                     /\ lastCall' = [op |-> "fallback", err |-> ErrNoFunction]
                     /\ UNCHANGED ledgerState
       /\ getContractBalance' > getContractBalance /\ ~ReceiverReverts =>
              \E sender \in Addr, id \in 1 .. charityCount, value \in 1 .. MaxAmount :
                  /\ donate(sender, id, value)
                  /\ lastCall'.err = OK
                  /\ getContractBalance' = getContractBalance + value
      ]_vars

\* C26 is met when a transfer of value to a ledger that holds donations has
\* been rejected.
C26_Witness ==
    /\ lastCall = [op |-> "receive", err |-> ErrUseDonate]
    /\ getContractBalance > 0
    /\ getContractBalance = SumBalances(charityCount)

\* C27 as stated: getDonorLeaderboard(limit) returns, without changing
\* anything, the donors ranked by donorTotalDonations in descending order, the
\* earlier donor first among equals, cut to limit entries.  A call that
\* reverts returns no ranking.
C27_LeaderboardReturns ==
    [][\A sender \in Addr, limit \in Limits :
          getDonorLeaderboard(sender, limit) =>
              /\ lastCall'.err = OK
              /\ UNCHANGED ledgerState
      ]_vars

RECURSIVE Reverse(_)
\* the sequence s, last entry first
Reverse(s) == IF s = << >> THEN << >> ELSE Append(Reverse(Tail(s)), Head(s))

\* the last n entries of donationHistory, all of them when there are fewer
LastDonations(n) ==
    LET len == Len(donationHistory) IN
    IF n >= len THEN donationHistory ELSE SubSeq(donationHistory, len - n + 1, len)

\* C28. getRecentDonations(limit) returns min(limit, length) records, entry i
\* (from 0) being the record at position length - 1 - i of donationHistory:
\* the last limit records, most recent first; nothing for limit 0 or an empty
\* history, and the whole history reversed for a limit above its length.
C28_RecentDonations ==
    \A limit \in Limits :
        LET len == Len(donationHistory)
            recent == getRecentDonations(limit)
        IN  /\ Len(recent) = (IF limit < len THEN limit ELSE len)
            /\ recent = Reverse(LastDonations(limit))
            /\ \A i \in 0 .. (Len(recent) - 1) : recent[i + 1] = donationHistory[len - i]
            /\ (limit = 0 \/ len = 0) => recent = << >>
            /\ limit > len => recent = Reverse(donationHistory)

\* C28 is met when the history holds two different records and a read with
\* limit 1 returns the later one alone.
C28_Witness ==
    /\ Len(donationHistory) = 2
    /\ donationHistory[1] # donationHistory[2]
    /\ getRecentDonations(1) = << donationHistory[2] >>
    /\ getRecentDonations(3) = << donationHistory[2], donationHistory[1] >>

\* The outcome of a call that failed.
Failed(err) == err \notin {OK, Running, Idle}

\* C29. Failure atomicity: a call that ends in a failure leaves storage (the
\* registry, the ledger, the roles, the guard flag), every balance and the
\* event log as they were before the call.  A call that is refused by a
\* require changes nothing; a withdrawFunds whose transfer fails, the one
\* failure the contract meets after it has written, gives back the state it
\* started from, which is the one recorded when it entered the transfer,
\* with the escrow restored, the guard free and the escrows covered by the
\* ledger's balance again, whatever the receiver had called in between.
C29_FailureAtomicity ==
    [][/\ Failed(lastCall'.err) /\ ~ReceiverReverts => UNCHANGED ledgerState
       /\ \A sender \in Addr, id \in 1 .. charityCount :
              withdrawFunds(sender, id) /\ lastCall'.err = Running =>
                  /\ ~locked
                  /\ callStack' = Append(callStack, callStack'[Len(callStack')])
                  /\ callStack'[Len(callStack')].saved = Snapshot
       /\ ReceiverReverts =>
              /\ Failed(lastCall'.err)
              /\ Snapshot' = Top.saved
              /\ callStack' = SubSeq(callStack, 1, Len(callStack) - 1)
              /\ ~locked'
              /\ getContractBalance' = SumBalances(charityCount)'
      ]_vars

\* C29 is met when a withdrawFunds has failed on its transfer and the ledger
\* holds the escrow again, the guard free.
C29_Witness ==
    /\ lastCall = [op |-> "withdrawFunds", err |-> ErrTransferFailed]
    /\ callStack = << >>
    /\ ~locked
    /\ getContractBalance > 0
    /\ getContractBalance = SumBalances(charityCount)
    /\ logs = << >>

\* The escrow of charity r that is on its way to r's wallet: the amount of the
\* withdrawFunds(r) calls that are inside their transfer.
InFlight(r) ==
    LET frames == {i \in 1 .. Len(callStack) : callStack[i].charityId = r}
    IN  IF frames = {} THEN 0 ELSE callStack[CHOOSE i \in frames : TRUE].balance

\* C30. Zero before transfer: while the transfer of withdrawFunds(r) is with
\* the wallet, charityBalances[r] is 0 and the amount has left the ledger, so
\* what the receiver reads or calls sees an empty escrow for r and a ledger
\* balance equal to the sum of the escrows; at most one withdrawFunds is in
\* its transfer at a time; and for every charity what was paid out, what is on
\* its way and what is in escrow add up to what the charity received, so no
\* escrow is paid out twice.
C30_ZeroBeforeTransfer ==
    /\ InTransfer =>
           /\ charityBalances[Top.charityId] = 0
           /\ Top.balance > 0
           /\ getContractBalance = SumBalances(charityCount)
           /\ locked
    /\ Len(callStack) <= 1
    /\ \A r \in 1 .. charityCount :
           withdrawn[r] + InFlight(r) + charityBalances[r] = charities[r].totalReceived

\* C30 is met when the receiver, inside the transfer, has called withdrawFunds
\* for the same charity again and has been refused.
C30_Witness ==
    /\ InTransfer
    /\ lastCall = [op |-> "withdrawFunds", err |-> ErrReentrant]
    /\ ethBalance[Top.wallet] >= Top.balance
    /\ charityBalances[Top.charityId] = 0

\* C31 as stated: a call that fails has written nothing by the time it fails,
\* so that the failing step finds nothing to undo, in withdrawFunds as in the
\* other functions.
C31_NoFailureAfterWrite ==
    [][Failed(lastCall'.err) => UNCHANGED <<storage, ethBalance>>]_vars

\* C31. Errors are found by checks on the state the call starts in, with one
\* exception.  The outcome of donate and of withdrawFunds is decided by their
\* requires evaluated on the pre-call state, in the order of the code, none
\* of them on a value the call has written; a call that fails on them is
\* refused by the step that starts it and leaves everything as it was.  The
\* one failure raised after writes is "Transfer failed" of withdrawFunds: it
\* comes when the escrow is already 0 and the amount has left, and the revert
\* then restores both.
C31_ErrorsBeforeMutation ==
    [][/\ \A sender \in Addr, id \in 0 .. (charityCount + 1), value \in 0 .. MaxAmount :
              donate(sender, id, value) =>
                  /\ lastCall'.err = donateOutcome(id, value)
                  /\ Failed(lastCall'.err) => UNCHANGED ledgerState
       /\ \A sender \in Addr, id \in 0 .. (charityCount + 1) :
              withdrawFunds(sender, id) =>
                  /\ lastCall'.err = withdrawOutcome(sender, id)
                  /\ Failed(lastCall'.err) => UNCHANGED ledgerState
       /\ Failed(lastCall'.err) /\ lastCall'.err # ErrTransferFailed =>
              UNCHANGED ledgerState
       /\ lastCall'.err = ErrTransferFailed =>
              /\ ReceiverReverts
              /\ lastCall'.op = "withdrawFunds"
              /\ charityBalances[Top.charityId] = 0
              /\ charityBalances'[Top.charityId] = Top.balance
              /\ Top.balance > 0
              /\ ethBalance' # ethBalance
      ]_vars

\* C31 is met when a withdrawFunds by an account that is not the wallet has
\* been refused on its check, the escrow it asked for untouched.
C31_Witness ==
    /\ lastCall = [op |-> "withdrawFunds", err |-> ErrNotWallet]
    /\ ~InTransfer
    /\ \E r \in 1 .. charityCount : charityBalances[r] > 0

\* C32. Id discipline: the charities are exactly those under the ids
\* 1..charityCount and the record under id i has id i, and so for the
\* proposals and proposalCount; the counts never go down and a record, once
\* there, keeps its id and stays (a deactivated charity keeps its record).  A
\* failed transfer apart, which takes back what the calls nested in its
\* withdrawal added.
C32_IdDiscipline ==
    /\ [](/\ Len(charities) = charityCount
          /\ \A i \in 1 .. charityCount : charities[i].id = i
          /\ Len(proposals) = proposalCount
          /\ \A i \in 1 .. proposalCount : proposals[i].id = i)
    /\ [][~ReceiverReverts =>
              /\ charityCount' >= charityCount
              /\ proposalCount' >= proposalCount
              /\ \A i \in 1 .. charityCount :
                     i <= Len(charities') /\ charities'[i].id = charities[i].id
              /\ \A i \in 1 .. proposalCount :
                     i <= Len(proposals') /\ proposals'[i].id = proposals[i].id
         ]_vars

\* C32 is met when the seeded charity has been deactivated after a second
\* proposal was approved as charity 3: ids 1, 2, 3 are all there.
C32_Witness ==
    /\ lastCall = Call("toggleCharityStatus")
    /\ charityCount = 3 /\ proposalCount = 2
    /\ ~charities[1].isActive /\ charities[1].id = 1
    /\ charities[3].id = 3
    /\ proposals[2].id = 2

\* The fields of a charity that no function writes after _addCharity.
fixedFields(charity) ==
    <<charity.id, charity.name, charity.description, charity.walletAddress>>

\* C33. A charity's id, name, description and walletAddress never change once
\* the charity is there; its totalReceived changes only by a donate to it that
\* returns, by the value donated; its isActive changes only by a
\* toggleCharityStatus of it that returns (or with the failed transfer that
\* undoes such a toggle nested in its withdrawal).
C33_CharityFieldsFixed ==
    [][\A i \in 1 .. charityCount :
          i <= Len(charities') =>
              /\ fixedFields(charities'[i]) = fixedFields(charities[i])
              /\ charities'[i].totalReceived # charities[i].totalReceived =>
                     \E sender \in Addr, value \in 1 .. MaxAmount :
                         /\ donate(sender, i, value)
                         /\ lastCall'.err = OK
                         /\ charities'[i].totalReceived
                                = charities[i].totalReceived + value
              /\ charities'[i].isActive # charities[i].isActive /\ ~ReceiverReverts =>
                     \E sender \in Admins :
                         toggleCharityStatus(sender, i) /\ lastCall'.err = OK
      ]_vars

\* C33 is met when an approved charity has received a donation and has then
\* been deactivated: its wallet is still the proposed one, as is the seeded
\* charity's.
C33_Witness ==
    /\ lastCall = Call("toggleCharityStatus")
    /\ charityCount = 2
    /\ charities[2].walletAddress = Stranger /\ charities[2].name = "Foo"
    /\ charities[2].totalReceived = 1 /\ ~charities[2].isActive
    /\ charities[1].walletAddress = UnicefWallet /\ charities[1].isActive

\* C34. A newly granted administrator has the administrators' functions:
\* grantRole(ADMIN_ROLE, x) by a holder of DEFAULT_ADMIN_ROLE returns with x
\* holding ADMIN_ROLE; approveCharity, rejectCharity, toggleCharityStatus and
\* (under the V2 logic) setVersion by an x holding ADMIN_ROLE are not refused
\* with "Caller is not an admin" and return when their other requires hold,
\* under either logic; by an x holding neither role they fail with "Caller is
\* not an admin" and change nothing.
C34_NewAdminCapabilities ==
    [][/\ \A sender \in roles[DEFAULT_ADMIN_ROLE], x \in Addr :
              grantRole(sender, ADMIN_ROLE, x) =>
                  lastCall'.err = OK /\ x \in roles'[ADMIN_ROLE]
       /\ \A x \in Addr \ Admins :
              /\ \A p \in 0 .. (proposalCount + 1) :
                     approveCharity(x, p) \/ rejectCharity(x, p) =>
                         lastCall'.err = ErrNotAdmin /\ UNCHANGED ledgerState
              /\ \A id \in 0 .. (charityCount + 1) :
                     toggleCharityStatus(x, id) =>
                         lastCall'.err = ErrNotAdmin /\ UNCHANGED ledgerState
              /\ \A version \in VersionTexts :
                     setVersion(x, version) /\ implementation = "V2" =>
                         lastCall'.err = ErrNotAdmin /\ UNCHANGED ledgerState
       /\ \A x \in roles[ADMIN_ROLE] :
              /\ \A p \in 0 .. (proposalCount + 1) :
                     approveCharity(x, p) \/ rejectCharity(x, p) =>
                         /\ lastCall'.err # ErrNotAdmin
                         /\ p \in PendingIds => lastCall'.err = OK /\ proposals'[p].isProcessed
              /\ \A id \in 0 .. (charityCount + 1) :
                     toggleCharityStatus(x, id) =>
                         /\ lastCall'.err # ErrNotAdmin
                         /\ id \in 1 .. charityCount =>
                                /\ lastCall'.err = OK
                                /\ charities'[id].isActive = ~charities[id].isActive
              /\ \A version \in VersionTexts :
                     setVersion(x, version) /\ implementation = "V2" =>
                         lastCall'.err = OK /\ contractVersion' = version
      ]_vars

\* C34 is met when the stranger, granted ADMIN_ROLE alone by the deployer, has
\* approved a proposal under the V2 logic.
C34_Witness ==
    /\ lastCall = Call("approveCharity")
    /\ implementation = "V2"
    /\ Stranger \in roles[ADMIN_ROLE] \ roles[DEFAULT_ADMIN_ROLE]
    /\ charityCount = 2 /\ proposals[1].isApproved

\* C35. Reads are pure: a call of a view function or public getter leaves
\* storage, the guard flag included, the balances, the logs and the call
\* stack unchanged, and is never refused with ReentrantCall, also when the
\* receiver makes it from inside the transfer of a withdrawFunds; it returns
\* whenever the logic in place has the function, except that the getters
\* donationHistory(i) and donorAddresses(i) revert, without a reason, for an
\* i that is not below the array's length.
C35_ReadsArePure ==
    [][\A sender \in Addr, fn \in ViewFunctions, index \in Limits :
          viewCall(sender, fn, index) =>
              /\ UNCHANGED ledgerState
              /\ locked' = locked
              /\ lastCall'.op = fn
              /\ lastCall'.err # ErrReentrant
              /\ lastCall'.err =
                     (IF fn \in V2Views /\ implementation # "V2" THEN ErrNoFunction
                      ELSE IF fn = "donationHistory" /\ index >= Len(donationHistory)
                      THEN ErrOutOfRange
                      ELSE IF fn = "donorAddresses" /\ index >= Len(donorAddresses)
                      THEN ErrOutOfRange
                      ELSE OK)
      ]_vars

\* C35 is met when the receiver has read the record of the donation it is
\* withdrawing from inside the transfer, the guard held.
C35_Witness ==
    /\ InTransfer
    /\ locked
    /\ lastCall = Call("donationHistory")
    /\ charityBalances[Top.charityId] = 0

\* C36. Append-only history: in every step donationHistory keeps the records
\* it has, each at its index and with the same donor, charityId, amount and
\* timestamp; it grows by one record, at the end, in a donate that returns and
\* by none in any other step, withdrawFunds and its outcomes included; its
\* length never goes down.
C36_AppendOnlyHistory ==
    [][/\ Len(donationHistory') >= Len(donationHistory)
       /\ \A i \in 1 .. Len(donationHistory) : donationHistory'[i] = donationHistory[i]
       /\ Len(donationHistory') - Len(donationHistory) \in {0, 1}
       /\ Len(donationHistory') = Len(donationHistory) + 1 <=>
              \E sender \in Addr, id \in 1 .. charityCount, value \in 1 .. MaxAmount :
                  donate(sender, id, value) /\ lastCall'.err = OK
      ]_vars

\* C36 is met when a second donation of another amount has been recorded
\* behind the first.
C36_Witness ==
    /\ lastCall = Call("donate")
    /\ Len(donationHistory) = 2
    /\ donationHistory[1].amount # donationHistory[2].amount
    /\ totalDonations = 3

RECURSIVE SumAmounts(_)
\* the amounts of the first n donationHistory records
SumAmounts(n) == IF n = 0 THEN 0 ELSE donationHistory[n].amount + SumAmounts(n - 1)

RECURSIVE SumReceived(_)
\* charities[1].totalReceived + ... + charities[n].totalReceived
SumReceived(n) == IF n = 0 THEN 0 ELSE charities[n].totalReceived + SumReceived(n - 1)

RECURSIVE SumDonorTotals(_)
\* getAllDonors: the totalDonated of the first n entries of donorAddresses
SumDonorTotals(n) ==
    IF n = 0 THEN 0 ELSE donorTotalDonations[donorAddresses[n]] + SumDonorTotals(n - 1)

RECURSIVE SumDonatedBy(_, _)
\* the amounts of the first n donationHistory records whose donor is a
SumDonatedBy(a, n) ==
    IF n = 0 THEN 0
    ELSE (IF donationHistory[n].donor = a THEN donationHistory[n].amount ELSE 0)
             + SumDonatedBy(a, n - 1)

\* C37. The totals agree: in every state totalDonations is the sum of the
\* amounts in donationHistory, the sum of totalReceived over the charities and
\* the sum of donorTotalDonations over donorAddresses; donorTotalDonations[a]
\* is the sum of the amounts of the records whose donor is a; and a is in
\* donorAddresses exactly when donorTotalDonations[a] > 0.
C37_TotalsAgree ==
    /\ totalDonations = SumAmounts(Len(donationHistory))
    /\ totalDonations = SumReceived(charityCount)
    /\ totalDonations = SumDonorTotals(Len(donorAddresses))
    /\ \A a \in Addr :
           /\ donorTotalDonations[a] = SumDonatedBy(a, Len(donationHistory))
           /\ a \in Donors <=> donorTotalDonations[a] > 0

\* C37 is met when one donor has given twice and another once, to two
\* charities.
C37_Witness ==
    /\ Len(donationHistory) = 3
    /\ Len(donorAddresses) = 2
    /\ charityCount = 2 /\ charities[1].totalReceived > 0 /\ charities[2].totalReceived > 0
    /\ \E a \in Donors : donorTotalDonations[a] = 2 /\ SumDonatedBy(a, 3) = 2
    /\ totalDonations = 3

\* C38. Escrow is not stranded: between calls the guard is free, and a
\* withdrawFunds(r) by r's wallet, made between calls while
\* charityBalances[r] > 0, reaches its transfer with the whole escrow, whether
\* r is active or not, whatever was toggled, granted, revoked or upgraded
\* before and whatever failed before; when the wallet accepts the transfer the
\* call returns.  A donate to a deactivated charity is refused all the same.
C38_EscrowNotStranded ==
    /\ [](~InTransfer => ~locked)
    /\ [][/\ \A r \in 1 .. charityCount :
                 /\ ~InTransfer
                 /\ charityBalances[r] > 0
                 /\ withdrawFunds(charities[r].walletAddress, r)
                 => /\ lastCall'.err = Running
                    /\ callStack'[Len(callStack')].charityId = r
                    /\ callStack'[Len(callStack')].balance = charityBalances[r]
                    /\ ethBalance'[charities[r].walletAddress]
                           = ethBalance[charities[r].walletAddress] + charityBalances[r]
          /\ ReceiverReturns =>
                 /\ lastCall' = Call("withdrawFunds")
                 /\ charityBalances'[Top.charityId] = 0
                 /\ withdrawn'[Top.charityId] = withdrawn[Top.charityId] + Top.balance
          /\ \A sender \in Addr, r \in 1 .. charityCount, value \in 0 .. MaxAmount :
                 ~charities[r].isActive /\ donate(sender, r, value) =>
                     lastCall'.err = ErrNotActive
         ]_vars

\* C38 is met when the wallet of a deactivated charity has withdrawn the
\* escrow the charity held when it was deactivated.
C38_Witness ==
    /\ lastCall = Call("withdrawFunds")
    /\ ~InTransfer
    /\ ~charities[1].isActive
    /\ withdrawn[1] > 0
    /\ charityBalances[1] = 0

\* C39. Frame of a withdrawal: a withdrawFunds(r) that reaches its transfer
\* empties charityBalances[r] and moves that amount from the ledger to r's
\* wallet, and when the transfer is accepted the call returns having changed
\* nothing more in the ledger's data: totalDonations, every totalReceived, r's
\* included, the donor totals, donorAddresses, donationHistory, the proposals
\* and the escrow of every other charity are as before, also for a charity
\* registered with the same wallet as r.
C39_WithdrawFrame ==
    [][/\ \A sender \in Addr, r \in 1 .. charityCount :
              withdrawFunds(sender, r) /\ lastCall'.err = Running =>
                  /\ charityBalances'[r] = 0
                  /\ \A s \in (1 .. charityCount) \ {r} :
                         charityBalances'[s] = charityBalances[s]
                  /\ ethBalance' = [ethBalance EXCEPT
                         ![Ledger] = @ - charityBalances[r],
                         ![charities[r].walletAddress] = @ + charityBalances[r]]
                  /\ UNCHANGED <<totalDonations, charities, donorTotalDonations,
                                 isDonor, donorAddresses, donationHistory, proposals,
                                 charityCount, proposalCount, roles>>
       /\ ReceiverReturns =>
              /\ lastCall' = Call("withdrawFunds")
              /\ UNCHANGED <<charityBalances, ethBalance, totalDonations, charities,
                             donorTotalDonations, isDonor, donorAddresses,
                             donationHistory, proposals, charityCount, proposalCount,
                             roles>>
      ]_vars

\* C39 is met when the wallet of two charities, both holding a donation, has
\* withdrawn for the first: the escrow of the second is still there.
C39_Witness ==
    /\ lastCall = Call("withdrawFunds")
    /\ charityCount = 2
    /\ charities[1].walletAddress = charities[2].walletAddress
    /\ withdrawn[1] = 1 /\ charityBalances[1] = 0 /\ charities[1].totalReceived = 1
    /\ withdrawn[2] = 0 /\ charityBalances[2] = 1
    /\ getContractBalance = 1

\* The registry: what proposeCharity, approveCharity, rejectCharity and
\* toggleCharityStatus write.
registry == <<charityCount, proposalCount, charities, proposals>>

\* C40. The functions outside the guard stay callable during a withdrawal:
\* inside the transfer of a withdrawFunds, proposeCharity by the receiver, and
\* approveCharity, rejectCharity and toggleCharityStatus by a receiver holding
\* an admin role, are not refused with ReentrantCall and take effect as they
\* do between calls.  When the receiver accepts the transfer the registry
\* they left stays; when it rejects, the registry is again the one the
\* withdrawal started with.  Either way, once the withdrawal has ended the
\* ledger's balance equals the sum of the escrows, the records are those
\* under 1..count with their own ids, an approved proposal is processed, and
\* charityCount is one plus the number of approved proposals.
C40_UnguardedCallsDuringTransfer ==
    /\ [](~InTransfer /\ initialized =>
              /\ getContractBalance = SumBalances(charityCount)
              /\ Len(charities) = charityCount /\ Len(proposals) = proposalCount
              /\ \A i \in 1 .. charityCount : charities[i].id = i
              /\ \A p \in 1 .. proposalCount :
                     proposals[p].id = p
                     /\ (proposals[p].isApproved => proposals[p].isProcessed)
              /\ charityCount = 1 + Cardinality(ApprovedIds))
    /\ [][/\ InTransfer =>
                 /\ \A sender \in Addr :
                        proposeCharity(sender, "Foo", "desc", Stranger) =>
                            /\ lastCall'.err = OK
                            /\ proposalCount' = proposalCount + 1
                            /\ proposals'[proposalCount'].proposer = sender
                 /\ \A sender \in Admins, p \in PendingIds :
                        /\ approveCharity(sender, p) =>
                               /\ lastCall'.err = OK
                               /\ charityCount' = charityCount + 1
                               /\ proposals'[p].isApproved
                        /\ rejectCharity(sender, p) =>
                               /\ lastCall'.err = OK
                               /\ proposals'[p].isProcessed /\ ~proposals'[p].isApproved
                 /\ \A sender \in Admins, id \in 1 .. charityCount :
                        toggleCharityStatus(sender, id) =>
                            /\ lastCall'.err = OK
                            /\ charities'[id].isActive = ~charities[id].isActive
          /\ \A sender \in Addr, r \in 1 .. charityCount :
                 withdrawFunds(sender, r) /\ lastCall'.err = Running =>
                     /\ callStack'[Len(callStack')].saved = Snapshot
                     /\ UNCHANGED registry
          /\ ReceiverReturns => UNCHANGED registry
          /\ ReceiverReverts =>
                 registry' = <<Top.saved.charityCount, Top.saved.proposalCount,
                               Top.saved.charities, Top.saved.proposals>>
         ]_vars

\* C40 is met when a withdrawal has returned whose receiver, inside the
\* transfer, proposed a charity and approved it: both stay.
C40_Witness ==
    /\ ~InTransfer
    /\ lastCall = Call("withdrawFunds")
    /\ Len(logs) = 3
    /\ logs[1].event = "CharityProposed"
    /\ logs[2].event = "CharityApproved"
    /\ logs[3].event = "FundsWithdrawn"
    /\ charityCount = 2 /\ proposals[1].isApproved

====
